---- MODULE Spec2Model ----
(***************************************************************************)
(* Verification model of the copytrader synchronization core:              *)
(*   core/detector.py   ChangeDetector                                     *)
(*   core/monitor.py    MasterMonitor                                      *)
(*   core/engine.py     SyncEngine (poll loop, change handlers, control    *)
(*                      plane)                                             *)
(*   core/executor.py   SlaveExecutor                                      *)
(*   services/retry_manager.py  RetryManager                               *)
(*   db/sqlite.py       SQLiteDatabase (mapping store, audit log)          *)
(*                                                                         *)
(* Volumes are integers in thousandths of a lot (0.10 lot = 100), prices   *)
(* (sl, tp) are small integers in points with 0 = unset.                   *)
(***************************************************************************)
EXTENDS Integers, Sequences, FiniteSets, TLC

VARIABLES
    \* ---- master broker (the environment of MasterMonitor)
    master_positions,   \* ticket -> position open on the master account, or NoPos
    master_closed,      \* tickets the broker has closed (a ticket is never reused)
    \* ---- MasterMonitor / ChangeDetector
    master_mt5,         \* MasterMonitor.mt5 is not None
    master_initialized, \* MasterMonitor._initialized
    master_state,       \* MasterMonitor.state: connected, error_count, positions_count
    previous_snapshot,  \* ChangeDetector.previous_snapshot
    changes,            \* the ChangeSet returned by the last detect_changes
    fetch_result,       \* what the last positions_get did: "ok", "none", "raise"
    polls,              \* number of detect_changes calls made so far
    startup_tickets,    \* tickets open on the master when initialize ran
    \* ---- SyncEngine
    running,            \* SyncEngine._running
    starts,             \* number of SyncEngine.start calls made so far
    slaves,             \* SyncEngine.slaves: name -> SlaveExecutor, or NoSlave
    position_map,       \* SyncEngine.position_map: master ticket -> list of mappings
    handlers,           \* the change handlers of the ChangeSet being processed
    ready,              \* the event loop's FIFO queue of coroutine steps ready to run
    calls,              \* trade operations invoked on slaves since the last poll
    control_ops,        \* number of control-plane operations run so far
    \* ---- SQLiteDatabase
    db_rows,            \* the rows of table position_mappings
    audit_log,          \* the rows of table audit_log
    \* ---- RetryManager.execute_with_retry, one call
    operation,          \* the QueuedOperation: attempts, max_attempts, status
    retry_pc,           \* where the coroutine stands
    executed,           \* what each executor invocation did, in order
    callbacks,          \* the callbacks invoked, in order
    slept,              \* the delays slept, in order
    returned,           \* the value returned ("" while running)
    on_success,         \* an on_success callback was passed
    on_failure,         \* an on_failure callback was passed
    base_delay,         \* RetryManager.base_delay, in seconds
    \* ---- calls made on one component alone
    store_call,         \* the last call made on the mapping store
    lot_call,           \* the last LotCalculator.calculate call and its result
    detector_call,      \* the last call made on the ChangeDetector
    order_call,         \* the last order request or SL/TP pair a slave computed
    partial_call,       \* one mapping through a sequence of partial-close events
    \* ---- SyncEngine: the tasks of start, run and stop, and the API's answers
    heartbeat_task,     \* SyncEngine._heartbeat_task: "none", "alive" or "done"
    orphan_heartbeats,  \* heartbeat tasks alive that _heartbeat_task no longer names
    heartbeats,         \* number of _heartbeat_loop iterations run so far
    loop_pc,            \* where SyncEngine.run stands: "idle", "top", "iteration", "exited"
    stop_pc,            \* where SyncEngine.stop stands: "idle", "awaiting"
    stops,              \* number of SyncEngine.stop calls made so far
    start_call,         \* the last SyncEngine.start call and what it returned
    api_response        \* the last request made on the engine's control plane

monitor_vars == <<master_positions, master_closed, master_mt5, master_initialized,
                  master_state, previous_snapshot, changes, fetch_result, polls,
                  startup_tickets>>

engine_vars == <<running, starts, slaves, position_map, handlers, ready,
                 calls, control_ops, db_rows, audit_log>>

retry_vars == <<operation, retry_pc, executed, callbacks, slept, returned, on_success,
                on_failure, base_delay>>

unit_vars == <<store_call, lot_call, detector_call, order_call, partial_call>>

lifecycle_vars == <<heartbeat_task, orphan_heartbeats, heartbeats, loop_pc, stop_pc,
                    stops, start_call, api_response>>

vars == <<monitor_vars, engine_vars, retry_vars, lifecycle_vars, unit_vars>>

----------------------------------------------------------------------------
(* Bounds of the model *)

MaxPolls == 2
MaxErrors == 2
MaxEnginePolls == 2
MaxControlOps == 1
MaxStarts == 2
MaxAttempts == 3

Tickets == {1, 2}
Symbols == {"EURUSD"}

----------------------------------------------------------------------------
(* Arithmetic helpers *)

Min(a, b) == IF a <= b THEN a ELSE b
Max(a, b) == IF a >= b THEN a ELSE b
Abs(a) == IF a < 0 THEN -a ELSE a

\* round(n / d) to the nearest integer, ties to even (Python's round), n >= 0, d > 0
RoundDiv(n, d) ==
    LET q == n \div d
        r == n % d
    IN  IF 2 * r < d THEN q
        ELSE IF 2 * r > d THEN q + 1
        ELSE IF q % 2 = 0 THEN q ELSE q + 1

\* round(x, 2) of a volume held in thousandths of a lot
Round2(v) == 10 * RoundDiv(v, 10)

\* the tickets of S in ascending order (the order a loop over a set of small
\* integers visits them)
TicketSeq == <<1, 2>>

SortedSeq(S) == SelectSeq(TicketSeq, LAMBDA t : t \in S)

Range(s) == {s[i] : i \in 1..Len(s)}

----------------------------------------------------------------------------
(* models/position.py *)

NoPos == [symbol |-> "", volume |-> 0, sl |-> 0, tp |-> 0]

\* PositionSnapshot as held in a snapshot dict (the key is the ticket)
Position(sym, v, sl, tp) == [symbol |-> sym, volume |-> v, sl |-> sl, tp |-> tp]

EmptySnapshot == [t \in Tickets |-> NoPos]

Keys(snap) == {t \in Tickets : snap[t] # NoPos}

PositionSnapshot(t, p) ==
    [ticket |-> t, symbol |-> p.symbol, volume |-> p.volume, sl |-> p.sl, tp |-> p.tp]

PartialClose(t, closed, remaining, original) ==
    [ticket |-> t, closed_volume |-> closed, remaining_volume |-> remaining,
     original_volume |-> original]

Modification(t, old_sl, new_sl, old_tp, new_tp) ==
    [ticket |-> t, old_sl |-> old_sl, new_sl |-> new_sl,
     old_tp |-> old_tp, new_tp |-> new_tp]

ChangeSet(new, closed, partial, mods) ==
    [new_positions |-> new, closed_positions |-> closed,
     partial_closes |-> partial, modifications |-> mods]

EmptyChangeSet == ChangeSet(<<>>, <<>>, <<>>, <<>>)

is_empty(cs) ==
    /\ cs.new_positions = <<>>
    /\ cs.closed_positions = <<>>
    /\ cs.partial_closes = <<>>
    /\ cs.modifications = <<>>

----------------------------------------------------------------------------
(* core/detector.py *)

\* volume_tolerance = 0.001 lot, in thousandths of a lot
volume_tolerance == 1

\* the comparison without the tolerance and with the boundary included
IsPartialCloseInclusive(prev, curr) == curr.volume <= prev.volume

\* curr.volume < prev.volume - self.volume_tolerance
IsPartialClose(prev, curr) == curr.volume < prev.volume - volume_tolerance

\* abs(curr.sl - prev.sl) > 0.00001 or abs(curr.tp - prev.tp) > 0.00001
\* (prices are whole points here, so any difference exceeds the tolerance)
IsModification(prev, curr) == Abs(curr.sl - prev.sl) > 0 \/ Abs(curr.tp - prev.tp) > 0

NewOf(t, current) == PositionSnapshot(t, current[t])

PartialOf(t, pc) ==
    PartialClose(t, Round2(pc[1][t].volume - pc[2][t].volume),
                 pc[2][t].volume, pc[1][t].volume)

ModOf(t, pc) ==
    Modification(t, pc[1][t].sl, pc[2][t].sl, pc[1][t].tp, pc[2][t].tp)

\* the snapshot replaced before the comparison: current is compared with itself
compute_diff_snapshot_first(previous, current) == EmptyChangeSet

\* ChangeDetector.compute_diff: the ChangeSet of current against previous
compute_diff(previous, current) ==
    LET current_tickets == Keys(current)
        previous_tickets == Keys(previous)
        both == current_tickets \cap previous_tickets
        partials == {t \in both : IsPartialClose(previous[t], current[t])}
        mods == {t \in both : IsModification(previous[t], current[t])}
        new_seq == SortedSeq(current_tickets \ previous_tickets)
        closed_seq == SortedSeq(previous_tickets \ current_tickets)
        partial_seq == SortedSeq(partials)
        mod_seq == SortedSeq(mods)
    IN  ChangeSet(
            [i \in 1..Len(new_seq) |-> NewOf(new_seq[i], current)],
            [i \in 1..Len(closed_seq) |-> NewOf(closed_seq[i], previous)],
            [i \in 1..Len(partial_seq) |-> PartialOf(partial_seq[i], <<previous, current>>)],
            [i \in 1..Len(mod_seq) |-> ModOf(mod_seq[i], <<previous, current>>)])

----------------------------------------------------------------------------
(* The master broker: the environment MasterMonitor polls *)

\* a new position appears on the master account
BrokerOpen(t, p) ==
    /\ master_positions[t] = NoPos
    /\ t \notin master_closed
    /\ master_positions' = [master_positions EXCEPT ![t] = p]
    /\ UNCHANGED master_closed

\* the master closes a position in full
BrokerClose(t) ==
    /\ master_positions[t] # NoPos
    /\ master_positions' = [master_positions EXCEPT ![t] = NoPos]
    /\ master_closed' = master_closed \cup {t}

\* the master closes part of a position: its volume drops to v
BrokerPartialClose(t, v) ==
    /\ master_positions[t] # NoPos
    /\ v < master_positions[t].volume
    /\ master_positions' = [master_positions EXCEPT ![t].volume = v]
    /\ UNCHANGED master_closed

\* the master moves the stop-loss / take-profit of a position
BrokerModify(t, sl, tp) ==
    /\ master_positions[t] # NoPos
    /\ <<sl, tp>> # <<master_positions[t].sl, master_positions[t].tp>>
    /\ master_positions' = [master_positions EXCEPT ![t].sl = sl, ![t].tp = tp]
    /\ UNCHANGED master_closed

----------------------------------------------------------------------------
(* models/account.py AccountState *)

InitialAccountState == [connected |-> FALSE, error_count |-> 0, positions_count |-> 0]

update_from_account_info(st) == [st EXCEPT !.connected = TRUE, !.error_count = 0]

record_error(st) == [st EXCEPT !.connected = FALSE, !.error_count = @ + 1]

----------------------------------------------------------------------------
(* core/monitor.py *)

FetchResults == {"ok", "none", "raise"}

\* the dict MasterMonitor.get_current_positions returns when the master account
\* holds the positions broker and positions_get behaves as fetch says
get_current_positions(broker, fetch) ==
    IF ~master_mt5 THEN EmptySnapshot
    ELSE IF fetch = "ok" THEN broker
    ELSE EmptySnapshot

\* the AccountState after get_current_positions: only an exception is recorded
StateAfterFetch(st, fetch) ==
    IF master_mt5 /\ fetch = "raise" THEN record_error(st) ELSE st

\* MasterMonitor.initialize, the attempt that connects (or the last one that
\* does not): connected says whether initialize()/login() succeeded,
\* account_info whether account_info() returned something
MonitorInitialize(broker, connected, account_info, fetch) ==
    /\ IF ~connected
       THEN /\ master_mt5' = TRUE
            /\ UNCHANGED <<master_initialized, master_state, previous_snapshot,
                           fetch_result, startup_tickets>>
       ELSE LET st1 == IF account_info THEN update_from_account_info(master_state)
                       ELSE master_state
                st2 == IF fetch = "raise" THEN record_error(st1) ELSE st1
                current_positions == IF fetch = "ok" THEN broker ELSE EmptySnapshot
            IN  /\ master_mt5' = TRUE
                /\ previous_snapshot' = current_positions
                /\ master_state' =
                       [st2 EXCEPT !.positions_count = Cardinality(Keys(current_positions))]
                /\ master_initialized' = TRUE
                /\ fetch_result' = fetch
                /\ startup_tickets' = Keys(broker)
    /\ UNCHANGED <<changes, polls>>

\* MasterMonitor.detect_changes with ChangeDetector.compute_diff
detect_changes(broker, fetch) ==
    LET current == get_current_positions(broker, fetch)
        st == StateAfterFetch(master_state, fetch)
    IN  /\ master_state' = [st EXCEPT !.positions_count = Cardinality(Keys(current))]
        /\ changes' = compute_diff(previous_snapshot, current)
        /\ previous_snapshot' = current
        /\ fetch_result' = fetch
        /\ polls' = polls + 1

\* MasterMonitor.update_account_info: info says whether account_info()
\* returned something ("raise": it threw)
update_account_info(info) ==
    /\ master_mt5
    /\ master_state' =
          IF info = "ok" THEN update_from_account_info(master_state)
          ELSE IF info = "raise" THEN record_error(master_state)
          ELSE master_state

----------------------------------------------------------------------------
(* models/enums.py TradeRetcode, and the other ways a slave call can end *)

DONE == 10009
REJECT == 10006
INVALID_VOLUME == 10014
INVALID_PRICE == 10015
INVALID_STOPS == 10016
NO_MONEY == 10019
MARKET_CLOSED == 10018
CONNECTION == 10031

\* order_send returned None
NoResult == 0
\* the RPC raised; the executor caught it, recorded the error and returned None
Raised == -1
\* the executor returned None before order_send (no mt5, symbol, tick or
\* position not found)
NotSent == -2

----------------------------------------------------------------------------
(* services/lot_calculator.py *)

\* symbol_info absent
NoSymbolInfo == [volume_min |-> 0, volume_max |-> 0, volume_step |-> 0]

SymbolInfo(vmin, vmax, step) == [volume_min |-> vmin, volume_max |-> vmax, volume_step |-> step]

\* LotCalculator.calculate: lot_value is in thousandths (a FIXED lot in
\* thousandths of a lot, a MULTIPLIER of 1.0 = 1000); the result is in
\* thousandths of a lot
calculate(cfg, master_lot, symbol_info) ==
    LET d == IF cfg.lot_mode = "multiplier" THEN 1000
             ELSE IF cfg.lot_mode = "proportional" /\ cfg.master_balance > 0
                  THEN cfg.master_balance
             ELSE 1
        n == IF cfg.lot_mode = "exact" THEN master_lot
             ELSE IF cfg.lot_mode = "fixed" THEN cfg.lot_value
             ELSE IF cfg.lot_mode = "multiplier" THEN master_lot * cfg.lot_value
             ELSE IF cfg.lot_mode = "proportional" /\ cfg.master_balance > 0
                  THEN master_lot * cfg.slave_balance
             ELSE master_lot
        \* lot = max(min_lot, min(max_lot, lot)), as a fraction n1 / d
        n1 == Max(cfg.min_lot * d, Min(cfg.max_lot * d, n))
        n2 == Min(symbol_info.volume_max * d, Max(symbol_info.volume_min * d, n1))
    IN  IF symbol_info = NoSymbolInfo THEN 10 * RoundDiv(n1, 10 * d)
        ELSE IF symbol_info.volume_step > 0
             THEN Round2(RoundDiv(n2, d * symbol_info.volume_step) * symbol_info.volume_step)
        ELSE 10 * RoundDiv(n2, 10 * d)

----------------------------------------------------------------------------
(* core/executor.py SlaveExecutor with models/account.py SlaveConfig *)

SlaveNames == {"s1", "s2"}

\* the order in which loops over the slaves dict visit the executors
SlaveSeq == <<"s1", "s2">>

\* symbols_filter is None
NoFilter == {"*"}

\* SlaveExecutor.__init__ for a config with the SlaveConfig defaults
SlaveExecutor(enabled) ==
    [present |-> TRUE, enabled |-> enabled, symbols_filter |-> NoFilter,
     lot_mode |-> "exact", lot_value |-> 1000, min_lot |-> 10, max_lot |-> 10000,
     master_balance |-> 0, slave_balance |-> 0,
     mt5 |-> FALSE, initialized |-> FALSE, connected |-> FALSE]

\* no executor under that name
NoSlave == [SlaveExecutor(FALSE) EXCEPT !.present = FALSE]

\* SlaveConfig.should_copy_symbol
should_copy_symbol(sl, symbol) ==
    IF sl.symbols_filter = NoFilter THEN TRUE ELSE symbol \in sl.symbols_filter

\* SlaveExecutor.is_connected
is_connected(sl) == sl.initialized /\ sl.connected

\* SlaveExecutor.shutdown
shutdown(sl) == [sl EXCEPT !.initialized = FALSE, !.connected = FALSE]

\* the except branches of the executor: state.record_error
slave_record_error(sl) == [sl EXCEPT !.connected = FALSE]

\* SlaveExecutor.initialize: outcome "ok" (connected, account_info read),
\* "ok_noinfo" (connected, account_info() returned None), "fail" (the last
\* attempt's initialize()/login() returned false), "refused" (the last attempt
\* raised before the client object was made)
initialize(sl, outcome) ==
    IF outcome = "ok"
    THEN [sl EXCEPT !.mt5 = TRUE, !.initialized = TRUE, !.connected = TRUE]
    ELSE IF outcome = "ok_noinfo"
    THEN [sl EXCEPT !.mt5 = TRUE, !.initialized = TRUE]
    ELSE IF outcome = "fail"
    THEN [sl EXCEPT !.mt5 = TRUE]
    ELSE slave_record_error(sl)

InitializeOutcomes == {"ok", "ok_noinfo", "fail", "refused"}

\* whether initialize returned True
initialize_ok(outcome) == outcome \in {"ok", "ok_noinfo"}

\* the ticket the slave's broker gives the order copying master ticket t
SlaveTicket(t, name) == 100 * (IF name = "s1" THEN 1 ELSE 2) + t

\* how open_position can end on executor sl: without mt5 it returns None at
\* once; on a connection that is shut down (or was never set up) no RPC
\* succeeds
OpenOutcomes(sl) ==
    IF ~sl.mt5 THEN {NotSent}
    ELSE IF ~sl.initialized THEN {NotSent, Raised}
    ELSE {DONE, MARKET_CLOSED, NO_MONEY, Raised}

\* how close_position can end (NotSent: the position is not found)
CloseOutcomes(sl) ==
    IF ~sl.mt5 THEN {NotSent}
    ELSE IF ~sl.initialized THEN {NotSent, Raised}
    ELSE {DONE, MARKET_CLOSED, NotSent, Raised}

\* how modify_position can end
ModifyOutcomes(sl) ==
    IF ~sl.mt5 THEN {NotSent}
    ELSE IF ~sl.initialized THEN {NoResult, Raised}
    ELSE {DONE, INVALID_STOPS, Raised}

\* whether get_position_by_ticket can find the position
PositionLookups(sl) ==
    IF ~sl.mt5 \/ ~sl.initialized THEN {FALSE} ELSE {TRUE, FALSE}

\* one invocation of a trade operation on a slave executor, with how it
\* ended; n numbers the invocations of the same operation for the same
\* master ticket on the same slave since the last poll
Call(by, op, name, mt, volume, retcode) ==
    [by |-> by, op |-> op, slave |-> name, master_ticket |-> mt,
     volume |-> volume, retcode |-> retcode,
     n |-> 1 + Cardinality({c \in calls : c.by = by /\ c.op = op /\ c.slave = name
                                           /\ c.master_ticket = mt})]

\* the symbol_info of the one symbol: volume_min 0.01, volume_max 100, step 0.01
EURUSDInfo == SymbolInfo(10, 100000, 10)

----------------------------------------------------------------------------
(* core/executor.py: the order request of open_position. Prices are whole   *)
(* points; sl or tp 0 is "not set".                                         *)

\* models/enums.py PositionType (OrderType has the same two values)
BUY == 0
SELL == 1

\* the master position as open_position reads it
MasterPosition(type, price_open, sl, tp) ==
    [type |-> type, price_open |-> price_open, sl |-> sl, tp |-> tp]

\* symbol_info_tick
Tick(bid, ask) == [bid |-> bid, ask |-> ask]

\* the direction never inverted
get_trade_direction_as_master(invert_trades, master_type) == master_type

\* SlaveExecutor.get_trade_direction
get_trade_direction(invert_trades, master_type) ==
    IF invert_trades
    THEN (IF master_type = BUY THEN SELL ELSE BUY)
    ELSE master_type

\* SlaveExecutor._calculate_sl
calculate_sl(master_pos, entry_price, direction) ==
    IF master_pos.sl <= 0 THEN 0
    ELSE IF direction = BUY
         THEN entry_price - Abs(master_pos.price_open - master_pos.sl)
         ELSE entry_price + Abs(master_pos.price_open - master_pos.sl)

\* SlaveExecutor._calculate_tp
calculate_tp(master_pos, entry_price, direction) ==
    IF master_pos.tp <= 0 THEN 0
    ELSE IF direction = BUY
         THEN entry_price + Abs(master_pos.price_open - master_pos.tp)
         ELSE entry_price - Abs(master_pos.price_open - master_pos.tp)

\* SlaveExecutor.open_position: type, price, sl and tp of the request sent
order_request(invert_trades, master_pos, tick) ==
    LET direction == get_trade_direction(invert_trades, master_pos.type)
        price == IF direction = BUY THEN tick.ask ELSE tick.bid
    IN  [type |-> IF direction = BUY THEN BUY ELSE SELL,
         price |-> price,
         sl |-> calculate_sl(master_pos, price, direction),
         tp |-> calculate_tp(master_pos, price, direction)]

----------------------------------------------------------------------------
(* models/position.py PositionMapping and db/sqlite.py *)

PositionMapping(mt, st, name, mv, sv, sym) ==
    [master_ticket |-> mt, slave_ticket |-> st, slave_name |-> name,
     master_volume |-> mv, slave_volume |-> sv, symbol |-> sym,
     status |-> "open", closed_at |-> FALSE]

\* position_map entries: a key that is absent, or a key with its list
NoEntry == [present |-> FALSE, list |-> <<>>]
Entry(list) == [present |-> TRUE, list |-> list]

EmptyPositionMap == [t \in Tickets |-> NoEntry]

\* the unique key of table position_mappings: UNIQUE(master_ticket, slave_name)
SameKey(m, r) == m.master_ticket = r.master_ticket /\ m.slave_name = r.slave_name

\* a plain INSERT into a table without the UNIQUE constraint
insert_position_mappings(rows, mappings) ==
    rows \cup {[mappings[i] EXCEPT !.closed_at = FALSE] : i \in 1..Len(mappings)}

\* SQLiteDatabase.save_position_mappings: INSERT OR REPLACE on the unique key
\* (master_ticket, slave_name); closed_at is not written and stays NULL
\* (a later mapping of the list replaces an earlier one of the same key)
save_position_mappings(rows, mappings) ==
    LET last == {i \in 1..Len(mappings) :
                    ~\E j \in (i + 1)..Len(mappings) : SameKey(mappings[i], mappings[j])}
        saved == {[mappings[i] EXCEPT !.closed_at = FALSE] : i \in last}
    IN  {r \in rows : ~\E m \in saved : SameKey(m, r)} \cup saved

\* an UPDATE that sets closed_at when closing and leaves it alone otherwise
update_status_keep_closed_at(rows, mt, status) ==
    {IF r.master_ticket = mt
     THEN [r EXCEPT !.status = status, !.closed_at = IF status = "closed" THEN TRUE ELSE @]
     ELSE r : r \in rows}

\* SQLiteDatabase.update_mappings_status
update_mappings_status(rows, mt, status) ==
    {IF r.master_ticket = mt
     THEN [r EXCEPT !.status = status, !.closed_at = (status = "closed")]
     ELSE r : r \in rows}

\* SQLiteDatabase.update_mapping_volume
update_mapping_volume(rows, mt, name, new_volume) ==
    {IF r.master_ticket = mt /\ r.slave_name = name
     THEN [r EXCEPT !.slave_volume = new_volume]
     ELSE r : r \in rows}

\* SQLiteDatabase.load_position_mappings: the open rows by master ticket
load_position_mappings(rows) ==
    [t \in Tickets |->
        LET names == SelectSeq(SlaveSeq, LAMBDA n :
                        \E r \in rows : r.master_ticket = t /\ r.slave_name = n
                                        /\ r.status = "open")
        IN  IF names = <<>> THEN NoEntry
            ELSE Entry([i \in 1..Len(names) |->
                     CHOOSE r \in rows : r.master_ticket = t /\ r.slave_name = names[i]
                                         /\ r.status = "open"])]

\* SQLiteDatabase.log_event
log_event(log, event_type, mt, name, st) ==
    Append(log, [event_type |-> event_type, master_ticket |-> mt, slave_name |-> name,
                 slave_ticket |-> st])

----------------------------------------------------------------------------
(* core/engine.py SyncEngine: the change handlers on the event loop.        *)
(*                                                                         *)
(* The poll loop, the handlers it gathers and the control-plane requests   *)
(* share one asyncio event loop.  A coroutine runs until it awaits          *)
(* something that is not finished: a non-empty asyncio.gather or a store    *)
(* call.  The executor's coroutines hold no such await, so one slave        *)
(* operation is one step.  ready is the loop's FIFO queue of steps.         *)

retry_attempts == 3

\* what positions_get does in the runs of the engine (an exception differs
\* from a null result only in the master's AccountState)
EngineFetchResults == {"ok", "none"}

HandlerKinds == {"new", "close", "modify", "partial"}

HandlerIds == HandlerKinds \X Tickets

\* a coroutine handed to asyncio.gather by a handler: one slave operation;
\* prior is the mapping's slave_volume before the handler touched it
Task(name, st, volume, sl, tp, prior) ==
    [slave |-> name, slave_ticket |-> st, volume |-> volume, sl |-> sl, tp |-> tp,
     prior |-> prior]

\* _copy_to_slave returned None
NoMapping == PositionMapping(0, 0, "", 0, 0, "")

\* what a gathered coroutine returned
Result(retcode, mapping) == [retcode |-> retcode, mapping |-> mapping]

\* pc: "idle" (not part of this ChangeSet), "ready" (created, not yet run),
\* "waiting" (at asyncio.gather), "db" (at a store call), "skipped" (returned
\* at the position_map guard), "done", "raised" (ended by an exception,
\* raised_at says in which step, failed for which slaves' preparation)
IdleHandler ==
    [pc |-> "idle", tasks |-> <<>>, results |-> <<>>, raised_at |-> "", failed |-> {}]

Item(h, step, i) == [h |-> h, step |-> step, i |-> i]

TaskItems(h, tasks) == [i \in 1..Len(tasks) |-> Item(h, "task", i)]

\* the queue after the coroutine of task i of n returned: the gather of its
\* handler completes with the last one
AfterTask(h, i, n) ==
    Tail(ready) \o (IF i = n THEN <<Item(h, "resume", 0)>> ELSE <<>>)

HeadIs(kind, step) ==
    /\ ready # <<>>
    /\ Head(ready).h[1] = kind
    /\ Head(ready).step = step

\* SyncEngine._process_changes: the handler coroutines in gather order
Spawned(cs) ==
    [i \in 1..Len(cs.new_positions) |->
        Item(<<"new", cs.new_positions[i].ticket>>, "start", 0)]
    \o [i \in 1..Len(cs.closed_positions) |->
        Item(<<"close", cs.closed_positions[i].ticket>>, "start", 0)]
    \o [i \in 1..Len(cs.modifications) |->
        Item(<<"modify", cs.modifications[i].ticket>>, "start", 0)]
    \o [i \in 1..Len(cs.partial_closes) |->
        Item(<<"partial", cs.partial_closes[i].ticket>>, "start", 0)]

ChangeFor(seq, t) == CHOOSE x \in Range(seq) : x.ticket = t

Indices(list) == [i \in 1..Len(list) |-> i]

\* the mappings of a result list that are PositionMapping instances
Mappings(results) ==
    LET ok == SelectSeq(results, LAMBDA r : r.mapping # NoMapping)
    IN  [i \in 1..Len(ok) |-> ok[i].mapping]

\* the executor after one of its operations ended with retcode o
AfterCall(sls, name, o) ==
    IF o = Raised /\ sls[name].present
    THEN [sls EXCEPT ![name] = slave_record_error(sls[name])]
    ELSE sls

\* a loop that creates the handlers without awaiting them
process_changes_not_awaited == TRUE

\* SyncEngine.run: await self._process_changes(changes) has returned, that
\* is its gather (return_exceptions=True) has: nothing is left to run
process_changes_returned == ready = <<>>

\* SyncEngine.run, one iteration: detect_changes and _process_changes up to
\* its gather
Poll ==
    /\ running
    /\ process_changes_returned
    /\ polls < MaxEnginePolls
    /\ \E fetch \in EngineFetchResults : detect_changes(master_positions, fetch)
    /\ ready' = Spawned(changes')
    /\ handlers' = [h \in HandlerIds |->
                      IF \E i \in 1..Len(ready') : ready'[i].h = h
                      THEN [IdleHandler EXCEPT !.pc = "ready"] ELSE IdleHandler]
    /\ calls' = {}
    /\ UNCHANGED <<master_positions, master_closed, master_mt5, master_initialized,
                   startup_tickets, running, starts, slaves, position_map,
                   control_ops, db_rows, audit_log, retry_vars, lifecycle_vars, unit_vars>>

\* SyncEngine._handle_new_position up to its gather
HandleNewPosition ==
    /\ HeadIs("new", "start")
    /\ LET h == Head(ready).h
           master_pos == ChangeFor(changes.new_positions, h[2])
           names == SelectSeq(SlaveSeq, LAMBDA n :
                       slaves[n].present /\ should_copy_symbol(slaves[n], master_pos.symbol))
           tasks == [i \in 1..Len(names) |->
                       Task(names[i], 0, master_pos.volume, master_pos.sl, master_pos.tp, 0)]
       IN  IF tasks = <<>>
           THEN /\ handlers' = [handlers EXCEPT ![h].pc = "done"]
                /\ ready' = Tail(ready)
           ELSE /\ handlers' = [handlers EXCEPT ![h].pc = "waiting", ![h].tasks = tasks]
                /\ ready' = Tail(ready) \o TaskItems(h, tasks)
    /\ UNCHANGED <<monitor_vars, running, starts, slaves, position_map, calls,
                   control_ops, db_rows, audit_log, retry_vars, lifecycle_vars, unit_vars>>

\* SyncEngine._copy_to_slave with SlaveExecutor.open_position: one attempt
CopyToSlave ==
    /\ HeadIs("new", "task")
    /\ LET h == Head(ready).h
           i == Head(ready).i
           name == handlers[h].tasks[i].slave
           master_pos == ChangeFor(changes.new_positions, h[2])
           lot == calculate(slaves[name], master_pos.volume, EURUSDInfo)
       IN  \E o \in OpenOutcomes(slaves[name]) :
              LET mapping ==
                      IF o = DONE
                      THEN PositionMapping(h[2], SlaveTicket(h[2], name), name,
                               master_pos.volume,
                               calculate(slaves[name], master_pos.volume, NoSymbolInfo),
                               master_pos.symbol)
                      ELSE NoMapping
              IN  /\ calls' = calls \cup {Call("handler", "open", name, h[2], lot, o)}
                  /\ slaves' = AfterCall(slaves, name, o)
                  /\ handlers' = [handlers EXCEPT
                                    ![h].results = Append(@, Result(o, mapping))]
                  /\ ready' = AfterTask(h, i, Len(handlers[h].tasks))
    /\ UNCHANGED <<monitor_vars, running, starts, position_map, control_ops,
                   db_rows, audit_log, retry_vars, lifecycle_vars, unit_vars>>

\* SyncEngine._handle_new_position after its gather, up to the store call
NewPositionResume ==
    /\ HeadIs("new", "resume")
    /\ LET h == Head(ready).h
           mappings == Mappings(handlers[h].results)
       IN  IF mappings = <<>>
           THEN /\ handlers' = [handlers EXCEPT ![h].pc = "done"]
                /\ ready' = Tail(ready)
                /\ UNCHANGED position_map
           ELSE /\ position_map' = [position_map EXCEPT ![h[2]] = Entry(mappings)]
                /\ handlers' = [handlers EXCEPT ![h].pc = "db"]
                /\ ready' = Tail(ready) \o <<Item(h, "db", 0)>>
    /\ UNCHANGED <<monitor_vars, running, starts, slaves, calls, control_ops,
                   db_rows, audit_log, retry_vars, lifecycle_vars, unit_vars>>

\* SyncEngine._handle_new_position: db.save_position_mappings and the return
NewPositionSaved ==
    /\ HeadIs("new", "db")
    /\ LET h == Head(ready).h
       IN  /\ db_rows' = save_position_mappings(db_rows, Mappings(handlers[h].results))
           /\ handlers' = [handlers EXCEPT ![h].pc = "done"]
    /\ ready' = Tail(ready)
    /\ UNCHANGED <<monitor_vars, running, starts, slaves, position_map, calls,
                   control_ops, audit_log, retry_vars, lifecycle_vars, unit_vars>>

\* the mappings of list marked closed
MarkClosed(list) ==
    [i \in 1..Len(list) |-> [list[i] EXCEPT !.status = "closed", !.closed_at = TRUE]]

\* SyncEngine._handle_close_position up to its gather; an empty gather does
\* not suspend, the handler then runs on to its store call
HandleClosePosition ==
    /\ HeadIs("close", "start")
    /\ LET h == Head(ready).h
           list == position_map[h[2]].list
           idx == SelectSeq(Indices(list), LAMBDA i : slaves[list[i].slave_name].present)
           tasks == [k \in 1..Len(idx) |->
                       Task(list[idx[k]].slave_name, list[idx[k]].slave_ticket, 0, 0, 0,
                            list[idx[k]].slave_volume)]
       IN  IF ~position_map[h[2]].present
           THEN /\ handlers' = [handlers EXCEPT ![h].pc = "skipped"]
                /\ ready' = Tail(ready)
                /\ UNCHANGED position_map
           ELSE IF tasks = <<>>
           THEN /\ position_map' = [position_map EXCEPT ![h[2]].list = MarkClosed(list)]
                /\ handlers' = [handlers EXCEPT ![h].pc = "db"]
                /\ ready' = Tail(ready) \o <<Item(h, "db", 0)>>
           ELSE /\ handlers' = [handlers EXCEPT ![h].pc = "waiting", ![h].tasks = tasks]
                /\ ready' = Tail(ready) \o TaskItems(h, tasks)
                /\ UNCHANGED position_map
    /\ UNCHANGED <<monitor_vars, running, starts, slaves, calls, control_ops,
                   db_rows, audit_log, retry_vars, lifecycle_vars, unit_vars>>

\* SlaveExecutor.close_position as gathered by the close and the partial-close
\* handlers (volume 0 is "no volume": the whole position)
ClosePositionTask ==
    /\ ready # <<>>
    /\ Head(ready).h[1] \in {"close", "partial"}
    /\ Head(ready).step = "task"
    /\ LET h == Head(ready).h
           i == Head(ready).i
           task == handlers[h].tasks[i]
       IN  \E o \in CloseOutcomes(slaves[task.slave]) :
              /\ calls' = calls \cup {Call("handler", "close", task.slave, h[2],
                                           task.volume, o)}
              /\ slaves' = AfterCall(slaves, task.slave, o)
              /\ handlers' = [handlers EXCEPT
                                ![h].results = Append(@, Result(o, NoMapping))]
              /\ ready' = AfterTask(h, i, Len(handlers[h].tasks))
    /\ UNCHANGED <<monitor_vars, running, starts, position_map, control_ops,
                   db_rows, audit_log, retry_vars, lifecycle_vars, unit_vars>>

\* SyncEngine._handle_close_position after its gather: position_map[ticket]
\* is read again (KeyError when the key is gone), the mappings are marked
ClosePositionResume ==
    /\ HeadIs("close", "resume")
    /\ LET h == Head(ready).h
       IN  IF ~position_map[h[2]].present
           THEN /\ handlers' = [handlers EXCEPT ![h].pc = "raised",
                                                ![h].raised_at = "resume"]
                /\ ready' = Tail(ready)
                /\ UNCHANGED position_map
           ELSE /\ position_map' = [position_map EXCEPT
                                      ![h[2]].list = MarkClosed(@)]
                /\ handlers' = [handlers EXCEPT ![h].pc = "db"]
                /\ ready' = Tail(ready) \o <<Item(h, "db", 0)>>
    /\ UNCHANGED <<monitor_vars, running, starts, slaves, calls, control_ops,
                   db_rows, audit_log, retry_vars, lifecycle_vars, unit_vars>>

\* SyncEngine._handle_close_position: db.update_mappings_status, then
\* del position_map[ticket] (KeyError when the key is gone)
ClosePositionStored ==
    /\ HeadIs("close", "db")
    /\ LET h == Head(ready).h
       IN  /\ db_rows' = update_mappings_status(db_rows, h[2], "closed")
           /\ IF ~position_map[h[2]].present
              THEN /\ handlers' = [handlers EXCEPT ![h].pc = "raised",
                                                   ![h].raised_at = "db"]
                   /\ UNCHANGED position_map
              ELSE /\ handlers' = [handlers EXCEPT ![h].pc = "done"]
                   /\ position_map' = [position_map EXCEPT ![h[2]] = NoEntry]
    /\ ready' = Tail(ready)
    /\ UNCHANGED <<monitor_vars, running, starts, slaves, calls, control_ops,
                   audit_log, retry_vars, lifecycle_vars, unit_vars>>

\* the sets of mappings of list (by index) whose slave exists and whose
\* get_position_by_ticket can return a position
LookupChoices(list, sls) ==
    {found \in SUBSET (1..Len(list)) :
        \A i \in found : sls[list[i].slave_name].present
                         /\ TRUE \in PositionLookups(sls[list[i].slave_name])}

\* SyncEngine._calculate_slave_sltp: the master's values, passed through
calculate_slave_sltp(mod) == <<mod.new_sl, mod.new_tp>>

\* SyncEngine._handle_modify_position up to its gather
HandleModifyPosition ==
    /\ HeadIs("modify", "start")
    /\ LET h == Head(ready).h
           mod == ChangeFor(changes.modifications, h[2])
           list == position_map[h[2]].list
       IN  IF ~position_map[h[2]].present
           THEN /\ handlers' = [handlers EXCEPT ![h].pc = "skipped"]
                /\ ready' = Tail(ready)
           ELSE \E found \in LookupChoices(list, slaves) :
                   LET idx == SelectSeq(Indices(list), LAMBDA i : i \in found)
                       tasks == [k \in 1..Len(idx) |->
                                   Task(list[idx[k]].slave_name, list[idx[k]].slave_ticket,
                                        0, calculate_slave_sltp(mod)[1],
                                        calculate_slave_sltp(mod)[2],
                                        list[idx[k]].slave_volume)]
                   IN  IF tasks = <<>>
                       THEN /\ handlers' = [handlers EXCEPT ![h].pc = "done"]
                            /\ ready' = Tail(ready)
                       ELSE /\ handlers' = [handlers EXCEPT ![h].pc = "waiting",
                                                            ![h].tasks = tasks]
                            /\ ready' = Tail(ready) \o TaskItems(h, tasks)
    /\ UNCHANGED <<monitor_vars, running, starts, slaves, position_map, calls,
                   control_ops, db_rows, audit_log, retry_vars, lifecycle_vars, unit_vars>>

\* SlaveExecutor.modify_position as gathered by the modify handler
ModifyPositionTask ==
    /\ HeadIs("modify", "task")
    /\ LET h == Head(ready).h
           i == Head(ready).i
           task == handlers[h].tasks[i]
       IN  \E o \in ModifyOutcomes(slaves[task.slave]) :
              /\ calls' = calls \cup {Call("handler", "modify", task.slave, h[2], 0, o)}
              /\ slaves' = AfterCall(slaves, task.slave, o)
              /\ handlers' = [handlers EXCEPT
                                ![h].results = Append(@, Result(o, NoMapping))]
              /\ ready' = AfterTask(h, i, Len(handlers[h].tasks))
    /\ UNCHANGED <<monitor_vars, running, starts, position_map, control_ops,
                   db_rows, audit_log, retry_vars, lifecycle_vars, unit_vars>>

\* SyncEngine._handle_modify_position after its gather: it returns
ModifyPositionResume ==
    /\ HeadIs("modify", "resume")
    /\ handlers' = [handlers EXCEPT ![Head(ready).h].pc = "done"]
    /\ ready' = Tail(ready)
    /\ UNCHANGED <<monitor_vars, running, starts, slaves, position_map, calls,
                   control_ops, db_rows, audit_log, retry_vars, lifecycle_vars, unit_vars>>

\* what the per-mapping preparation of the partial-close handler can meet:
\* "skip" (no such slave), "nopos" (get_position_by_ticket gave nothing),
\* "noinfo" (symbol_info gave nothing), "info", "raise" (symbol_info raised)
PartialPreps(sl) ==
    IF ~sl.present THEN {"skip"}
    ELSE IF TRUE \in PositionLookups(sl) THEN {"nopos", "noinfo", "info", "raise"}
    ELSE {"nopos"}

RECURSIVE PrepSeqs(_, _)
\* the runs of the preparation loop over list: one entry per mapping visited;
\* a run ending in "raise" visits no further mapping
PrepSeqs(list, sls) ==
    IF list = <<>> THEN {<<>>}
    ELSE LET ps == PartialPreps(sls[Head(list).slave_name])
         IN  {<<p>> \o rest : p \in ps \ {"raise"}, rest \in PrepSeqs(Tail(list), sls)}
             \cup (IF "raise" \in ps THEN {<<"raise">>} ELSE {})

\* round(mapping.slave_volume * close_ratio, 2), raised to volume_min when the
\* symbol_info is there
slave_close_volume(m, partial, prep) ==
    LET v == 10 * RoundDiv(m.slave_volume * partial.closed_volume,
                           10 * partial.original_volume)
    IN  IF prep = "info" /\ v < EURUSDInfo.volume_min THEN EURUSDInfo.volume_min ELSE v

RECURSIVE StoreVolumes(_, _)
\* db.update_mapping_volume for every mapping of list, in order
StoreVolumes(rows, list) ==
    IF list = <<>> THEN rows
    ELSE StoreVolumes(update_mapping_volume(rows, Head(list).master_ticket,
                          Head(list).slave_name, Head(list).slave_volume),
                      Tail(list))

\* SyncEngine._handle_partial_close up to its gather: every mapping visited
\* gets its task and has its slave_volume reduced at once; an exception of
\* symbol_info ends the handler there, the tasks made so far never run
HandlePartialClose ==
    /\ HeadIs("partial", "start")
    /\ LET h == Head(ready).h
           partial == ChangeFor(changes.partial_closes, h[2])
           list == position_map[h[2]].list
       IN  IF ~position_map[h[2]].present
           THEN /\ handlers' = [handlers EXCEPT ![h].pc = "skipped"]
                /\ ready' = Tail(ready)
                /\ UNCHANGED <<position_map, db_rows>>
           ELSE \E prep \in PrepSeqs(list, slaves) :
                   LET idx == SelectSeq(Indices(list), LAMBDA i :
                                 i <= Len(prep) /\ prep[i] \in {"nopos", "noinfo", "info"})
                       tasks == [k \in 1..Len(idx) |->
                                   Task(list[idx[k]].slave_name, list[idx[k]].slave_ticket,
                                        slave_close_volume(list[idx[k]], partial, prep[idx[k]]),
                                        0, 0, list[idx[k]].slave_volume)]
                       reduced == [i \in 1..Len(list) |->
                                     IF \E k \in 1..Len(idx) : idx[k] = i
                                     THEN [list[i] EXCEPT !.slave_volume =
                                              @ - slave_close_volume(list[i], partial, prep[i])]
                                     ELSE list[i]]
                   IN  /\ position_map' = [position_map EXCEPT ![h[2]].list = reduced]
                       /\ IF prep # <<>> /\ prep[Len(prep)] = "raise"
                          THEN /\ handlers' = [handlers EXCEPT
                                      ![h].pc = "raised",
                                      ![h].raised_at = "start",
                                      ![h].failed = {list[Len(prep)].slave_name},
                                      ![h].tasks = tasks]
                               /\ ready' = Tail(ready)
                               /\ UNCHANGED db_rows
                          ELSE IF tasks = <<>>
                          THEN /\ db_rows' = StoreVolumes(db_rows, reduced)
                               /\ handlers' = [handlers EXCEPT ![h].pc = "done"]
                               /\ ready' = Tail(ready)
                          ELSE /\ handlers' = [handlers EXCEPT ![h].pc = "waiting",
                                                               ![h].tasks = tasks]
                               /\ ready' = Tail(ready) \o TaskItems(h, tasks)
                               /\ UNCHANGED db_rows
    /\ UNCHANGED <<monitor_vars, running, starts, slaves, calls, control_ops, audit_log, retry_vars, lifecycle_vars, unit_vars>>

\* SyncEngine._handle_partial_close after its gather: position_map[ticket] is
\* read again (KeyError when the key is gone) and every mapping's volume is
\* written to the store
PartialCloseResume ==
    /\ HeadIs("partial", "resume")
    /\ LET h == Head(ready).h
       IN  IF ~position_map[h[2]].present
           THEN /\ handlers' = [handlers EXCEPT ![h].pc = "raised",
                                                ![h].raised_at = "resume"]
                /\ UNCHANGED db_rows
           ELSE /\ db_rows' = StoreVolumes(db_rows, position_map[h[2]].list)
                /\ handlers' = [handlers EXCEPT ![h].pc = "done"]
    /\ ready' = Tail(ready)
    /\ UNCHANGED <<monitor_vars, running, starts, slaves, position_map, calls,
                   control_ops, audit_log, retry_vars, lifecycle_vars, unit_vars>>

----------------------------------------------------------------------------
(* services/retry_manager.py RetryManager and models/position.py            *)
(* QueuedOperation                                                         *)

NON_RETRYABLE_CODES == {REJECT, INVALID_VOLUME, INVALID_PRICE, INVALID_STOPS, NO_MONEY}

\* RetryManager._is_retryable
is_retryable(retcode) == retcode \notin NON_RETRYABLE_CODES

\* RetryManager.__init__: max_delay = 30.0 seconds
max_delay == 30

\* QueuedOperation as RetryManager.create_operation makes it
QueuedOperation(max_attempts) ==
    [attempts |-> 0, max_attempts |-> max_attempts, status |-> "pending"]

\* what the executor handed to execute_with_retry can do: return a result
\* with a retcode, return None, raise
ExecutorOutcomes ==
    {DONE, MARKET_CLOSED, CONNECTION, NoResult, Raised} \cup NON_RETRYABLE_CODES

RECURSIVE Pow2(_)
Pow2(k) == IF k = 0 THEN 1 ELSE 2 * Pow2(k - 1)

\* the backoff with the exponent off by one: base * 2 ** attempts
retry_delay_next_power(base, attempts) == Min(base * Pow2(attempts), max_delay)

\* min(base_delay * 2 ** (attempts - 1), max_delay)
retry_delay(base, attempts) == Min(base * Pow2(attempts - 1), max_delay)

\* the tail of one loop iteration: the delay is computed, the operation goes
\* back to PENDING and the coroutine sleeps
ScheduleRetry ==
    /\ operation' = [operation EXCEPT !.status = "pending"]
    /\ slept' = Append(slept, retry_delay(base_delay, operation.attempts))
    /\ retry_pc' = "sleep"

\* while operation.attempts < operation.max_attempts: the next attempt starts
AttemptBegins ==
    /\ retry_pc = "loop"
    /\ operation.attempts < operation.max_attempts
    /\ operation' = [operation EXCEPT !.attempts = @ + 1, !.status = "processing"]
    /\ retry_pc' = "executor"
    /\ UNCHANGED <<executed, callbacks, slept, returned, on_success, on_failure,
                   base_delay, monitor_vars,
                   engine_vars, lifecycle_vars, unit_vars>>

\* await executor(operation.payload) is over, up to the next await
ExecutorReturns ==
    /\ retry_pc = "executor"
    /\ \E o \in ExecutorOutcomes :
          /\ executed' = Append(executed, o)
          /\ IF o = DONE
             THEN /\ operation' = [operation EXCEPT !.status = "completed"]
                  /\ IF on_success
                     THEN /\ callbacks' = Append(callbacks, "on_success")
                          /\ retry_pc' = "on_success"
                          /\ UNCHANGED returned
                     ELSE /\ retry_pc' = "returned"
                          /\ returned' = "True"
                          /\ UNCHANGED callbacks
                  /\ UNCHANGED slept
             ELSE IF o \notin {NoResult, Raised} /\ ~is_retryable(o)
             THEN /\ operation' = [operation EXCEPT !.status = "failed"]
                  /\ IF on_failure
                     THEN /\ callbacks' = Append(callbacks, "on_failure")
                          /\ retry_pc' = "on_failure"
                          /\ UNCHANGED returned
                     ELSE /\ retry_pc' = "returned"
                          /\ returned' = "False"
                          /\ UNCHANGED callbacks
                  /\ UNCHANGED slept
             ELSE /\ ScheduleRetry
                  /\ UNCHANGED <<callbacks, returned>>
    /\ UNCHANGED <<on_success, on_failure, base_delay, monitor_vars,
                   engine_vars, lifecycle_vars, unit_vars>>

\* await on_success(operation, result) is over: it sits inside the try block,
\* so what it raises is caught like an executor's exception
OnSuccessReturns ==
    /\ retry_pc = "on_success"
    /\ \E raises \in BOOLEAN :
          IF raises
          THEN /\ ScheduleRetry
               /\ UNCHANGED returned
          ELSE /\ retry_pc' = "returned"
               /\ returned' = "True"
               /\ UNCHANGED <<operation, slept>>
    /\ UNCHANGED <<executed, callbacks, on_success, on_failure, base_delay, monitor_vars,
                   engine_vars, lifecycle_vars, unit_vars>>

\* await on_failure(operation, error_msg) of the non-retryable branch is
\* over: it sits inside the try block as well
OnFailureReturns ==
    /\ retry_pc = "on_failure"
    /\ \E raises \in BOOLEAN :
          IF raises
          THEN /\ ScheduleRetry
               /\ UNCHANGED returned
          ELSE /\ retry_pc' = "returned"
               /\ returned' = "False"
               /\ UNCHANGED <<operation, slept>>
    /\ UNCHANGED <<executed, callbacks, on_success, on_failure, base_delay, monitor_vars,
                   engine_vars, lifecycle_vars, unit_vars>>

\* await asyncio.sleep(delay) is over
RetryWakes ==
    /\ retry_pc = "sleep"
    /\ retry_pc' = "loop"
    /\ UNCHANGED <<operation, executed, callbacks, slept, returned, on_success,
                   on_failure, base_delay, monitor_vars,
                   engine_vars, lifecycle_vars, unit_vars>>

\* the loop is left: all retries exhausted
RetriesExhausted ==
    /\ retry_pc = "loop"
    /\ ~(operation.attempts < operation.max_attempts)
    /\ operation' = [operation EXCEPT !.status = "failed"]
    /\ IF on_failure
       THEN /\ callbacks' = Append(callbacks, "on_failure")
            /\ retry_pc' = "last_on_failure"
            /\ UNCHANGED returned
       ELSE /\ retry_pc' = "returned"
            /\ returned' = "False"
            /\ UNCHANGED callbacks
    /\ UNCHANGED <<executed, slept, on_success, on_failure, base_delay, monitor_vars,
                   engine_vars, lifecycle_vars, unit_vars>>

\* the on_failure after the loop is over: what it raises leaves
\* execute_with_retry
LastOnFailureReturns ==
    /\ retry_pc = "last_on_failure"
    /\ \E raises \in BOOLEAN :
          IF raises
          THEN /\ retry_pc' = "raised"
               /\ UNCHANGED returned
          ELSE /\ retry_pc' = "returned"
               /\ returned' = "False"
    /\ UNCHANGED <<operation, executed, callbacks, slept, on_success, on_failure,
                   base_delay, monitor_vars,
                   engine_vars, lifecycle_vars, unit_vars>>

\* no execute_with_retry call is under way (the engine makes none)
RetryIdle ==
    /\ operation = QueuedOperation(retry_attempts)
    /\ retry_pc = "idle"
    /\ executed = <<>>
    /\ callbacks = <<>>
    /\ slept = <<>>
    /\ returned = ""
    /\ on_success = FALSE
    /\ on_failure = FALSE
    /\ base_delay = 1

\* no call made yet on a component alone
NoStoreCall == [op |-> "", mappings |-> <<>>, existing |-> {}, reopened |-> FALSE]

\* a LotCalculator with its SlaveConfig and balances
LotCalculator(mode, lot_value, min_lot, max_lot, master_balance, slave_balance) ==
    [lot_mode |-> mode, lot_value |-> lot_value, min_lot |-> min_lot, max_lot |-> max_lot,
     master_balance |-> master_balance, slave_balance |-> slave_balance]

\* updated: an update_slave request followed the call; balances and after:
\* the calculator's balances and the result of the same call after it
NoLotCall ==
    [made |-> FALSE, cfg |-> LotCalculator("exact", 1000, 10, 10000, 0, 0),
     master_lot |-> 0, symbol_info |-> NoSymbolInfo, result |-> 0,
     updated |-> FALSE, balances |-> <<0, 0>>, after |-> 0]

\* op: the method called; before: previous_snapshot when it was called;
\* prior: the method called before it
NoDetectorCall == [op |-> "", before |-> EmptySnapshot, prior |-> ""]

\* op: "open" (an order request) or "modify" (an SL/TP pair); master: the
\* master position; entry: the slave position's entry price (modify)
NoOrderCall ==
    [op |-> "", invert_trades |-> FALSE, master |-> MasterPosition(BUY, 0, 0, 0),
     tick |-> Tick(0, 0), entry |-> 0, direction |-> BUY,
     request |-> [type |-> BUY, price |-> 0, sl |-> 0, tp |-> 0]]

\* a mapping followed through partial closes: master_volume is the master
\* position's volume, slave_volume the mapping's, position_volume the slave
\* position's at its broker (0: gone); before, requested, ordered and sent
\* describe the last event: the mapping's volume before it, the volume passed
\* to close_position, if an order was sent, and that order's volume
NoPartialCall ==
    [mapped |-> FALSE, events |-> 0, master_volume |-> 0, slave_volume |-> 0,
     position_volume |-> 0, before |-> 0, requested |-> 0, ordered |-> FALSE,
     sent |-> 0]

\* the answer of a control-plane request: op and name say which; lot_mode is
\* the request's field ("": left out); outcome is how the new executor's
\* initialize ended ("": not called); result is the engine's return value
\* ("raised": the call raised); status is the HTTP status of the response
NoApiResponse ==
    [op |-> "", name |-> "", lot_mode |-> "", outcome |-> "", result |-> "",
     status |-> 0]

\* no start call made yet; connected: the master connected; outcome: how
\* each slave's initialize ended; returned: the value start returned
NoStartCall ==
    [made |-> FALSE, connected |-> FALSE, outcome |-> <<>>, returned |-> FALSE]

\* SyncEngine.__init__: no heartbeat task, run and stop not called
LifecycleIdle ==
    /\ heartbeat_task = "none"
    /\ orphan_heartbeats = 0
    /\ heartbeats = 0
    /\ loop_pc = "idle"
    /\ stop_pc = "idle"
    /\ stops = 0
    /\ start_call = NoStartCall
    /\ api_response = NoApiResponse

UnitIdle ==
    /\ store_call = NoStoreCall
    /\ lot_call = NoLotCall
    /\ detector_call = NoDetectorCall
    /\ order_call = NoOrderCall
    /\ partial_call = NoPartialCall

----------------------------------------------------------------------------
(* core/engine.py SyncEngine: start and the control plane *)

\* how the slaves' initialize calls end in start
StartOutcomes ==
    {[n \in SlaveNames |-> "ok"],
     [n \in SlaveNames |-> IF n = "s1" THEN "ok" ELSE "fail"],
     [n \in SlaveNames |-> IF n = "s1" THEN "ok_noinfo" ELSE "refused"],
     [n \in SlaveNames |-> "fail"]}

\* the record of a start call
StartCall(connected, outcome, result) ==
    [made |-> TRUE, connected |-> connected, outcome |-> outcome, returned |-> result]

\* a start that keeps the executors whose initialize failed
start_keeping_failed_slaves(connected, fetch, outcome) ==
    /\ MonitorInitialize(master_positions, connected, TRUE, fetch)
    /\ IF ~connected
       THEN /\ start_call' = StartCall(FALSE, outcome, FALSE)
            /\ UNCHANGED <<slaves, position_map, running, heartbeat_task,
                           orphan_heartbeats>>
       ELSE /\ slaves' = [n \in SlaveNames |->
                             IF slaves[n].present THEN initialize(slaves[n], outcome[n])
                             ELSE NoSlave]
            /\ IF \A n \in SlaveNames : ~slaves[n].present
               THEN /\ start_call' = StartCall(TRUE, outcome, FALSE)
                    /\ UNCHANGED <<position_map, running, heartbeat_task,
                                   orphan_heartbeats>>
               ELSE /\ position_map' = load_position_mappings(db_rows)
                    /\ running' = TRUE
                    /\ heartbeat_task' = "alive"
                    /\ orphan_heartbeats' =
                          IF heartbeat_task = "alive" THEN orphan_heartbeats + 1
                          ELSE orphan_heartbeats
                    /\ start_call' = StartCall(TRUE, outcome, TRUE)

\* SyncEngine.start: the master connects or start returns false; the slaves
\* whose initialize failed are deleted; with no slave left start returns
\* false; otherwise the map is loaded, the flag set and the heartbeat task
\* created (the task _heartbeat_task named before is not cancelled)
start(connected, fetch, outcome) ==
    /\ MonitorInitialize(master_positions, connected, TRUE, fetch)
    /\ IF ~connected
       THEN /\ start_call' = StartCall(FALSE, outcome, FALSE)
            /\ UNCHANGED <<slaves, position_map, running, heartbeat_task,
                           orphan_heartbeats>>
       ELSE LET connected_slaves ==
                    [n \in SlaveNames |->
                        IF slaves[n].present /\ initialize_ok(outcome[n])
                        THEN initialize(slaves[n], outcome[n]) ELSE NoSlave]
            IN  /\ slaves' = connected_slaves
                /\ IF \A n \in SlaveNames : ~connected_slaves[n].present
                   THEN /\ start_call' = StartCall(TRUE, outcome, FALSE)
                        /\ UNCHANGED <<position_map, running, heartbeat_task,
                                       orphan_heartbeats>>
                   ELSE /\ position_map' = load_position_mappings(db_rows)
                        /\ running' = TRUE
                        /\ heartbeat_task' = "alive"
                        /\ orphan_heartbeats' =
                              IF heartbeat_task = "alive" THEN orphan_heartbeats + 1
                              ELSE orphan_heartbeats
                        /\ start_call' = StartCall(TRUE, outcome, TRUE)

\* SyncEngine.start (main.py calls it from CopyTraderService.start and, while
\* the engine is not running, again from SyncEngine.run)
Start ==
    /\ ~running
    /\ starts < MaxStarts
    /\ starts' = starts + 1
    /\ \E connected \in BOOLEAN, fetch \in EngineFetchResults, outcome \in StartOutcomes :
          start(connected, fetch, outcome)
    /\ UNCHANGED <<master_positions, master_closed, handlers, ready, calls,
                   control_ops, db_rows, audit_log, retry_vars, heartbeats, loop_pc,
                   stop_pc, stops, api_response, unit_vars>>

\* the master tickets with an open mapping of slave name
OpenMappingsOf(name) ==
    {t \in Tickets : \E i \in 1..Len(position_map[t].list) :
        /\ position_map[t].list[i].slave_name = name
        /\ position_map[t].list[i].status = "open"}

\* how the close_position calls of remove_slave / disable_slave can end, one
\* per master ticket with an open mapping of the slave
ControlOutcomes(name, close_positions) ==
    LET outs(t) == IF close_positions /\ is_connected(slaves[name])
                      /\ t \in OpenMappingsOf(name)
                   THEN CloseOutcomes(slaves[name]) ELSE {NotSent}
    IN  {[t \in Tickets |-> IF t = 1 THEN a ELSE b] : a \in outs(1), b \in outs(2)}

\* the close_position calls of remove_slave / disable_slave
ControlCalls(name, close_positions, outs) ==
    IF close_positions /\ is_connected(slaves[name])
    THEN {Call("control", "close", name, t, 0, outs[t]) : t \in OpenMappingsOf(name)}
    ELSE {}

\* position_map with the mappings of slave name marked closed where closed(t)
MarkSlaveClosed(name, closed) ==
    [t \in Tickets |->
        [position_map[t] EXCEPT !.list =
            [i \in 1..Len(position_map[t].list) |->
                IF position_map[t].list[i].slave_name = name
                   /\ position_map[t].list[i].status = "open" /\ t \in closed
                THEN [position_map[t].list[i] EXCEPT !.status = "closed"]
                ELSE position_map[t].list[i]]]]

\* a remove_slave that filters the lists and keeps the emptied entries
remove_slave_keeping_entries(name, close_positions) ==
    /\ slaves[name].present
    /\ \E outs \in ControlOutcomes(name, close_positions) :
          calls' = calls \cup ControlCalls(name, close_positions, outs)
    /\ slaves' = [slaves EXCEPT ![name] = NoSlave]
    /\ position_map' =
          [t \in Tickets |->
              IF ~position_map[t].present THEN NoEntry
              ELSE Entry(SelectSeq(position_map[t].list, LAMBDA m : m.slave_name # name))]

\* SyncEngine.remove_slave (it holds no await that suspends: the whole
\* request is one step of the event loop)
remove_slave(name, close_positions) ==
    /\ slaves[name].present
    /\ \E outs \in ControlOutcomes(name, close_positions) :
          calls' = calls \cup ControlCalls(name, close_positions, outs)
    /\ slaves' = [slaves EXCEPT ![name] = NoSlave]
    /\ position_map' =
          [t \in Tickets |->
              LET kept == SelectSeq(position_map[t].list, LAMBDA m : m.slave_name # name)
              IN  IF ~position_map[t].present \/ kept = <<>> THEN NoEntry ELSE Entry(kept)]

\* SyncEngine.disable_slave
disable_slave(name, close_positions) ==
    /\ slaves[name].present
    /\ \E outs \in ControlOutcomes(name, close_positions) :
          /\ calls' = calls \cup ControlCalls(name, close_positions, outs)
          /\ position_map' =
                IF close_positions /\ is_connected(slaves[name])
                THEN MarkSlaveClosed(name,
                        {t \in Tickets : outs[t] \notin {NotSent, NoResult, Raised}})
                ELSE position_map
    /\ slaves' = [slaves EXCEPT ![name] = shutdown([@ EXCEPT !.enabled = FALSE])]

\* SyncEngine.enable_slave
enable_slave(name, outcome) ==
    /\ slaves[name].present
    /\ ~(slaves[name].enabled /\ is_connected(slaves[name]))
    /\ slaves' = [slaves EXCEPT ![name] =
                     IF is_connected(@) THEN [@ EXCEPT !.enabled = TRUE]
                     ELSE initialize([@ EXCEPT !.enabled = TRUE], outcome)]

\* a control-plane request arrives between two steps of the event loop
RemoveSlave ==
    /\ running
    /\ control_ops < MaxControlOps
    /\ control_ops' = control_ops + 1
    /\ \E name \in SlaveNames, close_positions \in BOOLEAN :
          remove_slave(name, close_positions)
    /\ UNCHANGED <<monitor_vars, running, starts, handlers, ready, db_rows, audit_log, retry_vars, lifecycle_vars, unit_vars>>

DisableSlave ==
    /\ running
    /\ control_ops < MaxControlOps
    /\ control_ops' = control_ops + 1
    /\ \E name \in SlaveNames, close_positions \in BOOLEAN :
          disable_slave(name, close_positions)
    /\ UNCHANGED <<monitor_vars, running, starts, handlers, ready, db_rows, audit_log, retry_vars, lifecycle_vars, unit_vars>>

EnableSlave ==
    /\ running
    /\ control_ops < MaxControlOps
    /\ control_ops' = control_ops + 1
    /\ \E name \in SlaveNames, outcome \in InitializeOutcomes :
          enable_slave(name, outcome)
    /\ UNCHANGED <<monitor_vars, running, starts, position_map, handlers, ready,
                   calls, db_rows, audit_log, retry_vars, lifecycle_vars, unit_vars>>

----------------------------------------------------------------------------
(* Specification of the engine: the master account moves between polls.   *)
(* The runs follow one master position (open at startup or opened later)   *)
(* through its copies on two slaves.                                       *)

EngineTickets == {1}

EnginePosition == Position("EURUSD", 20, 0, 0)

\* the engine before start, with every variable of SyncEngine.__init__
SyncEngineInit ==
    /\ running = FALSE
    /\ starts = 0
    /\ slaves = [n \in SlaveNames |-> SlaveExecutor(TRUE)]
    /\ position_map = EmptyPositionMap
    /\ handlers = [h \in HandlerIds |-> IdleHandler]
    /\ ready = <<>>
    /\ calls = {}
    /\ control_ops = 0
    /\ audit_log = <<>>

\* the engine before its first start: the store is empty
EngineIdle ==
    /\ SyncEngineInit
    /\ db_rows = {}

\* the row an earlier run of the engine left in the store: master ticket 1
\* copied to s1 as slave ticket 9001
StoredTicket == 9001

StoredMapping == PositionMapping(1, StoredTicket, "s1", 20, 20, "EURUSD")

\* the monitor before initialize, with every variable of
\* MasterMonitor.__init__ and ChangeDetector.__init__
MonitorIdle ==
    /\ master_mt5 = FALSE
    /\ master_initialized = FALSE
    /\ master_state = InitialAccountState
    /\ previous_snapshot = EmptySnapshot
    /\ changes = EmptyChangeSet
    /\ fetch_result = "ok"
    /\ polls = 0
    /\ startup_tickets = {}

\* no position on the master account
MasterIdle ==
    /\ master_positions = EmptySnapshot
    /\ master_closed = {}
    /\ MonitorIdle

\* a first start, or a restart over the store of an earlier run (a stored
\* ticket that is no longer open was closed by the broker in between: the
\* broker does not give its number to a later position)
Init ==
    /\ master_positions \in {EmptySnapshot, [EmptySnapshot EXCEPT ![1] = EnginePosition]}
    /\ db_rows \in {{}, {StoredMapping}}
    /\ master_closed = {r.master_ticket : r \in {x \in db_rows :
                                              master_positions[x.master_ticket] = NoPos}}
    /\ MonitorIdle
    /\ SyncEngineInit
    /\ RetryIdle
    /\ LifecycleIdle
    /\ UnitIdle

MasterUnchanged ==
    UNCHANGED <<master_mt5, master_initialized, master_state, previous_snapshot,
                changes, fetch_result, polls, startup_tickets, engine_vars, retry_vars, lifecycle_vars, unit_vars>>

MasterOpens ==
    /\ running
    /\ polls < MaxEnginePolls
    /\ ready = <<>>
    /\ \E t \in EngineTickets : BrokerOpen(t, EnginePosition)
    /\ MasterUnchanged

MasterCloses ==
    /\ running
    /\ polls < MaxEnginePolls
    /\ ready = <<>>
    /\ \E t \in EngineTickets : BrokerClose(t)
    /\ MasterUnchanged

MasterClosesPart ==
    /\ running
    /\ polls < MaxEnginePolls
    /\ ready = <<>>
    /\ BrokerPartialClose(1, 10)
    /\ MasterUnchanged

MasterModifies ==
    /\ running
    /\ polls < MaxEnginePolls
    /\ ready = <<>>
    /\ BrokerModify(1, 1, 0)
    /\ MasterUnchanged

Next ==
    \/ Start
    \/ Poll
    \/ HandleNewPosition
    \/ CopyToSlave
    \/ NewPositionResume
    \/ NewPositionSaved
    \/ HandleClosePosition
    \/ ClosePositionTask
    \/ ClosePositionResume
    \/ ClosePositionStored
    \/ HandleModifyPosition
    \/ ModifyPositionTask
    \/ ModifyPositionResume
    \/ HandlePartialClose
    \/ PartialCloseResume
    \/ RemoveSlave
    \/ DisableSlave
    \/ EnableSlave
    \/ MasterOpens
    \/ MasterCloses
    \/ MasterClosesPart
    \/ MasterModifies

Spec == Init /\ [][Next]_vars

----------------------------------------------------------------------------
(* Specification of the monitor alone. Between two polls the master account
   may move to any position set, so each poll draws the account's positions
   from MonitorSnapshots. *)

MonitorVolumes == {6, 10, 20}
MonitorStops == {<<0, 0>>, <<1, 0>>, <<0, 1>>}

\* ticket 1 takes every volume and stop level, ticket 2 a single shape
MonitorPositionsOf(t) ==
    IF t = 1
    THEN {Position(sym, v, st[1], st[2]) :
             sym \in Symbols, v \in MonitorVolumes, st \in MonitorStops}
    ELSE {Position(sym, 10, 0, 0) : sym \in Symbols}

MonitorSnapshots ==
    {[t \in Tickets |-> IF t = 1 THEN a ELSE b] :
        a \in MonitorPositionsOf(1) \cup {NoPos}, b \in MonitorPositionsOf(2) \cup {NoPos}}

MonitorInit ==
    /\ MasterIdle
    /\ EngineIdle
    /\ RetryIdle
    /\ LifecycleIdle
    /\ UnitIdle

MonitorStart ==
    /\ ~master_initialized
    /\ \E broker \in MonitorSnapshots, connected \in BOOLEAN, account_info \in BOOLEAN,
          fetch \in FetchResults :
          /\ master_positions' = broker
          /\ MonitorInitialize(broker, connected, account_info, fetch)
    /\ UNCHANGED <<master_closed, engine_vars, retry_vars, lifecycle_vars, unit_vars>>

MonitorPoll ==
    /\ master_initialized
    /\ polls < MaxPolls
    /\ \E broker \in MonitorSnapshots, fetch \in FetchResults :
          /\ fetch = "raise" => master_state.error_count < MaxErrors
          /\ master_positions' = broker
          /\ detect_changes(broker, fetch)
    /\ UNCHANGED <<master_closed, master_mt5, master_initialized, startup_tickets,
                   engine_vars, retry_vars, lifecycle_vars, unit_vars>>

MonitorHeartbeat ==
    /\ \E info \in FetchResults :
          /\ info = "raise" => master_state.error_count < MaxErrors
          /\ update_account_info(info)
    /\ UNCHANGED <<master_positions, master_closed, master_mt5, master_initialized,
                   previous_snapshot, changes, fetch_result, polls, startup_tickets,
                   engine_vars, retry_vars, lifecycle_vars, unit_vars>>

MonitorNext ==
    \/ MonitorStart
    \/ MonitorPoll
    \/ MonitorHeartbeat

SpecMonitor == MonitorInit /\ [][MonitorNext]_vars

----------------------------------------------------------------------------
(* Specification of one RetryManager.execute_with_retry call *)

RetryInit ==
    /\ MasterIdle
    /\ EngineIdle
    /\ \E m \in 0..MaxAttempts : operation = QueuedOperation(m)
    /\ retry_pc = "loop"
    /\ executed = <<>>
    /\ callbacks = <<>>
    /\ slept = <<>>
    /\ returned = ""
    /\ on_success \in BOOLEAN
    /\ on_failure \in BOOLEAN
    /\ base_delay \in {1, 10}
    /\ LifecycleIdle
    /\ UnitIdle

RetryNext ==
    \/ AttemptBegins
    \/ ExecutorReturns
    \/ OnSuccessReturns
    \/ OnFailureReturns
    \/ RetryWakes
    \/ RetriesExhausted
    \/ LastOnFailureReturns

SpecRetry == RetryInit /\ [][RetryNext]_vars

----------------------------------------------------------------------------
(* Specification of the mapping store alone (db/sqlite.py, with an open     *)
(* connection): any sequence of save_position_mappings,                     *)
(* update_mappings_status and update_mapping_volume calls.                  *)

\* the mappings a caller can pass to save_position_mappings
StoreMappings ==
    {[PositionMapping(t, SlaveTicket(t, n), n, 20, 20, "EURUSD") EXCEPT !.status = st] :
        t \in Tickets, n \in SlaveNames, st \in {"open", "closed"}}

\* the lists passed to save_position_mappings: one or two mappings of one
\* master ticket
StoreLists ==
    {<<m>> : m \in StoreMappings}
    \cup {<<p[1], p[2]>> : p \in {q \in StoreMappings \X StoreMappings :
                                       q[1].master_ticket = q[2].master_ticket}}

StoreStatuses == {"open", "closed"}

StoreInit ==
    /\ MasterIdle
    /\ EngineIdle
    /\ RetryIdle
    /\ LifecycleIdle
    /\ UnitIdle

\* the call made a row 'open' that had a closed_at before it
Reopened ==
    \E r \in db_rows : /\ r.closed_at
                        /\ \E r2 \in db_rows' : SameKey(r, r2) /\ r2.status = "open"

StoreFrame ==
    UNCHANGED <<monitor_vars, running, starts, slaves, position_map, handlers, ready,
                calls, control_ops, audit_log, retry_vars, lifecycle_vars, lot_call, detector_call,
                order_call, partial_call>>

StoreSave ==
    /\ \E mappings \in StoreLists :
          /\ db_rows' = save_position_mappings(db_rows, mappings)
          /\ store_call' =
                [op |-> "save", mappings |-> mappings,
                 existing |-> {i \in 1..Len(mappings) :
                                  \E r \in db_rows : SameKey(mappings[i], r)},
                 reopened |-> Reopened]
    /\ StoreFrame

StoreUpdateStatus ==
    /\ \E mt \in Tickets, status \in StoreStatuses :
          db_rows' = update_mappings_status(db_rows, mt, status)
    /\ store_call' = [NoStoreCall EXCEPT !.op = "status", !.reopened = Reopened]
    /\ StoreFrame

StoreUpdateVolume ==
    /\ \E mt \in Tickets, name \in SlaveNames :
          db_rows' = update_mapping_volume(db_rows, mt, name, 10)
    /\ store_call' = [NoStoreCall EXCEPT !.op = "volume"]
    /\ StoreFrame

StoreNext ==
    \/ StoreSave
    \/ StoreUpdateStatus
    \/ StoreUpdateVolume

SpecStore == StoreInit /\ [][StoreNext]_vars

----------------------------------------------------------------------------
(* Specification of the lot calculator alone (services/lot_calculator.py):  *)
(* calculate is applied to configurations, master lots and symbol infos.    *)
(* Volumes are in thousandths of a lot, balances in account currency.       *)

LotModes == {"exact", "fixed", "multiplier", "proportional"}

\* master lots: 0.01, 0.04, 0.18, 0.4, 2.5
LotMasterLots == {10, 40, 180, 400, 2500}

\* lot_value: a FIXED lot of 0.05, a MULTIPLIER of 1.5
LotValues == {50, 1500}

\* <<min_lot, max_lot>> of the SlaveConfig
LotLimits == {<<10, 10000>>, <<10, 180>>, <<100, 1000>>, <<10, 50>>}

\* <<master_balance, slave_balance>>
LotBalances == {<<0, 500>>, <<1000, 500>>, <<1000, 3000>>}

\* symbol infos: steps 0.01, 0.1, 0.001, 0.004, and one with volume_step 0
LotSymbolInfos ==
    {SymbolInfo(10, 100000, 10), SymbolInfo(100, 1000, 100), SymbolInfo(1, 1000, 1),
     SymbolInfo(4, 1000, 4), SymbolInfo(10, 500, 0)}

LotInit ==
    /\ MasterIdle
    /\ EngineIdle
    /\ RetryIdle
    /\ LifecycleIdle
    /\ UnitIdle

\* the LotCalculator.calculate call of the run
Calculate ==
    /\ ~lot_call.made
    /\ \E mode \in LotModes, lot_value \in LotValues, limits \in LotLimits,
          balances \in LotBalances, master_lot \in LotMasterLots,
          symbol_info \in LotSymbolInfos \cup {NoSymbolInfo} :
          LET cfg == LotCalculator(mode, lot_value, limits[1], limits[2],
                                   balances[1], balances[2])
          IN  lot_call' = [NoLotCall EXCEPT
                              !.made = TRUE, !.cfg = cfg, !.master_lot = master_lot,
                              !.symbol_info = symbol_info,
                              !.result = calculate(cfg, master_lot, symbol_info)]
    /\ UNCHANGED <<monitor_vars, engine_vars, retry_vars, lifecycle_vars, store_call, detector_call,
                   order_call, partial_call>>

----------------------------------------------------------------------------
(* Specification of the change detector alone (core/detector.py):          *)
(* set_initial_snapshot, then any sequence of compute_diff calls over       *)
(* MonitorSnapshots.                                                        *)

DetectorInit ==
    /\ MasterIdle
    /\ EngineIdle
    /\ RetryIdle
    /\ LifecycleIdle
    /\ UnitIdle

DetectorFrame ==
    UNCHANGED <<master_positions, master_closed, master_mt5, master_initialized,
                master_state, fetch_result, polls, startup_tickets, engine_vars,
                retry_vars, lifecycle_vars, store_call, lot_call, order_call, partial_call>>

\* ChangeDetector.set_initial_snapshot, the first call on the detector
SetInitialSnapshot ==
    /\ detector_call.op = ""
    /\ \E positions \in MonitorSnapshots : previous_snapshot' = positions
    /\ detector_call' = [op |-> "set_initial_snapshot", before |-> previous_snapshot,
                         prior |-> detector_call.op]
    /\ UNCHANGED changes
    /\ DetectorFrame

\* ChangeDetector.compute_diff
ComputeDiff ==
    /\ \E current \in MonitorSnapshots :
          /\ changes' = compute_diff(previous_snapshot, current)
          /\ previous_snapshot' = current
    /\ detector_call' = [op |-> "compute_diff", before |-> previous_snapshot,
                         prior |-> detector_call.op]
    /\ DetectorFrame

DetectorNext ==
    \/ SetInitialSnapshot
    \/ ComputeDiff

SpecDetector == DetectorInit /\ [][DetectorNext]_vars

----------------------------------------------------------------------------
(* Specification of the SL/TP arithmetic alone: the order request of        *)
(* SlaveExecutor.open_position and the pair SyncEngine._calculate_slave_sltp *)
(* hands to modify_position, over bounded prices.                           *)

OrderEntryPrices == {100, 105}

\* <<sl, tp>> of a master position, above or below the entry, or not set
OrderStops == {<<0, 0>>, <<95, 0>>, <<0, 115>>, <<95, 115>>, <<110, 90>>}

\* <<bid, ask>>
OrderTicks == {<<100, 102>>, <<107, 108>>}

OrderMasterPositions ==
    {MasterPosition(type, price_open, st[1], st[2]) :
        type \in {BUY, SELL}, price_open \in OrderEntryPrices, st \in OrderStops}

OrderInit ==
    /\ MasterIdle
    /\ EngineIdle
    /\ RetryIdle
    /\ LifecycleIdle
    /\ UnitIdle

OrderFrame ==
    UNCHANGED <<monitor_vars, engine_vars, retry_vars, lifecycle_vars, store_call,
                lot_call, detector_call, partial_call>>

\* the request open_position builds for a master position
OpenOrder ==
    /\ order_call.op = ""
    /\ \E invert_trades \in BOOLEAN, master_pos \in OrderMasterPositions,
          t \in OrderTicks :
          order_call' = [NoOrderCall EXCEPT
                            !.op = "open", !.invert_trades = invert_trades,
                            !.master = master_pos, !.tick = Tick(t[1], t[2]),
                            !.request = order_request(invert_trades, master_pos,
                                                      Tick(t[1], t[2]))]
    /\ OrderFrame

\* the pair _handle_modify_position sends for a modification of the master
\* position master_pos to the stops st, for a slave position opened at entry
\* (slave_entry_price and direction are handed to _calculate_slave_sltp)
ModifyOrder ==
    /\ order_call.op = ""
    /\ \E master_pos \in OrderMasterPositions, st \in OrderStops,
          entry \in OrderEntryPrices, direction \in {BUY, SELL} :
          LET mod == Modification(1, master_pos.sl, st[1], master_pos.tp, st[2])
              sltp == calculate_slave_sltp(mod)
          IN  /\ IsModification(master_pos, [sl |-> st[1], tp |-> st[2]])
              /\ order_call' = [NoOrderCall EXCEPT
                                   !.op = "modify",
                                   !.master = [master_pos EXCEPT !.sl = st[1], !.tp = st[2]],
                                   !.entry = entry, !.direction = direction,
                                   !.request = [type |-> direction, price |-> entry,
                                                sl |-> sltp[1], tp |-> sltp[2]]]
    /\ OrderFrame

OrderNext ==
    \/ OpenOrder
    \/ ModifyOrder

SpecOrder == OrderInit /\ [][OrderNext]_vars

----------------------------------------------------------------------------
(* core/engine.py _handle_partial_close and core/executor.py close_position: *)
(* one mapping of one slave through a sequence of partial closes             *)

MaxPartialEvents == 2

\* volumes the master position starts with and is reduced to
PartialMasterVolumes == {10, 20, 30, 990, 1000}

\* volumes the mapping is created with
PartialSlaveVolumes == {10, 20, 30, 500}

PartialInit ==
    /\ MasterIdle
    /\ EngineIdle
    /\ RetryIdle
    /\ LifecycleIdle
    /\ UnitIdle

PartialFrame ==
    UNCHANGED <<monitor_vars, engine_vars, retry_vars, lifecycle_vars, store_call,
                lot_call, detector_call, order_call>>

\* SlaveExecutor.close_position: close_volume = volume if volume else pos.volume
close_volume(volume, pos_volume) ==
    IF volume # 0 THEN volume ELSE pos_volume

\* the mapping as the open handler leaves it: the slave position has the
\* volume the mapping records
PartialMapped ==
    /\ ~partial_call.mapped
    /\ \E mv \in {30, 1000}, sv \in PartialSlaveVolumes :
          partial_call' = [NoPartialCall EXCEPT !.mapped = TRUE,
                                                !.master_volume = mv,
                                                !.slave_volume = sv,
                                                !.position_volume = sv]
    /\ PartialFrame

\* one partial close of the master position handled for the mapping: prep is
\* what the slave's terminal answers the handler's two lookups, done whether
\* the slave's broker fills the close order
PartialCloseEvent ==
    /\ partial_call.mapped
    /\ partial_call.events < MaxPartialEvents
    /\ \E remaining \in {v \in PartialMasterVolumes : v < partial_call.master_volume},
          prep \in (IF partial_call.position_volume = 0 THEN {"nopos"}
                                                        ELSE {"noinfo", "info"}),
          done \in BOOLEAN :
          LET m == [slave_volume |-> partial_call.slave_volume]
              partial == PartialClose(1, partial_call.master_volume - remaining,
                                      remaining, partial_call.master_volume)
              requested == slave_close_volume(m, partial, prep)
              ordered == partial_call.position_volume # 0
              sent == IF ordered
                      THEN close_volume(requested, partial_call.position_volume)
                      ELSE 0
              filled == ordered /\ done /\ sent <= partial_call.position_volume
          IN  partial_call' =
                 [partial_call EXCEPT
                     !.events = @ + 1,
                     !.master_volume = remaining,
                     !.before = partial_call.slave_volume,
                     !.requested = requested,
                     !.ordered = ordered,
                     !.sent = sent,
                     !.slave_volume = @ - requested,
                     !.position_volume = IF filled THEN @ - sent ELSE @]
    /\ PartialFrame

PartialNext ==
    \/ PartialMapped
    \/ PartialCloseEvent

SpecPartial == PartialInit /\ [][PartialNext]_vars

----------------------------------------------------------------------------

(* core/engine.py SyncEngine: stop, run, the heartbeat, add_slave and       *)
(* update_slave, with the routes of api/routes/accounts.py that call them   *)

\* MasterMonitor.shutdown and SlaveExecutor.shutdown on every executor
shutdown_all ==
    /\ master_initialized' = FALSE
    /\ master_state' = [master_state EXCEPT !.connected = FALSE]
    /\ slaves' = [n \in SlaveNames |->
                     IF slaves[n].present THEN shutdown(slaves[n]) ELSE slaves[n]]

\* SlaveExecutor.update_account_info
slave_update_account_info(sl, info) ==
    IF ~sl.present \/ ~sl.mt5 THEN sl
    ELSE IF info = "ok" THEN [sl EXCEPT !.connected = TRUE]
    ELSE IF info = "raise" THEN slave_record_error(sl)
    ELSE sl

\* an add_slave that puts the new executor under a name already taken
add_slave_replacing(name, enabled, lot_mode, outcome) ==
    IF enabled /\ ~initialize_ok(outcome)
    THEN [success |-> FALSE, slaves |-> slaves]
    ELSE [success |-> TRUE,
          slaves |-> [slaves EXCEPT ![name] =
                         LET executor == [SlaveExecutor(enabled) EXCEPT !.lot_mode = lot_mode]
                         IN  IF enabled THEN initialize(executor, outcome) ELSE executor]]

\* SyncEngine.add_slave: the result's success flag and the slave set it leaves
add_slave(name, enabled, lot_mode, outcome) ==
    IF slaves[name].present
    THEN [success |-> FALSE, slaves |-> slaves]
    ELSE IF enabled /\ ~initialize_ok(outcome)
    THEN [success |-> FALSE, slaves |-> slaves]
    ELSE [success |-> TRUE,
          slaves |-> [slaves EXCEPT ![name] =
                         LET executor == [SlaveExecutor(enabled) EXCEPT !.lot_mode = lot_mode]
                         IN  IF enabled THEN initialize(executor, outcome) ELSE executor]]

\* the loop of update_slave over updates, a sequence of <<field, value>>:
\* LotMode(value) raises ValueError on a value that is no lot mode, and the
\* fields set before it stay set; a field the slave record does not hold
\* (magic_number, max_slippage, ...) or that is not allowed changes nothing here
RECURSIVE apply_updates(_, _)
apply_updates(sl, updates) ==
    IF updates = <<>> THEN [raised |-> FALSE, slave |-> sl]
    ELSE LET field == updates[1][1]
             value == updates[1][2]
         IN  IF field = "lot_mode"
             THEN IF value \in LotModes
                  THEN apply_updates([sl EXCEPT !.lot_mode = value], Tail(updates))
                  ELSE [raised |-> TRUE, slave |-> sl]
             ELSE IF field = "lot_value"
             THEN apply_updates([sl EXCEPT !.lot_value = value], Tail(updates))
             ELSE apply_updates(sl, Tail(updates))

\* LotCalculator(config, slave.lot_calculator.master_balance): the new
\* calculator keeps the master balance and starts with slave_balance 0.0
rebuilt_lot_calculator(sl) == [sl EXCEPT !.slave_balance = 0]

\* update_slave on the executor found under the name: the calculator is
\* rebuilt unless the loop over the updates raised
updated_slave(sl, updates) ==
    LET applied == apply_updates(sl, updates)
    IN  IF applied.raised THEN applied.slave ELSE rebuilt_lot_calculator(applied.slave)

\* SyncEngine.update_slave: "failure" (unknown name), "raised" (the
\* ValueError leaves the coroutine) or "success"
update_slave(name, updates) ==
    IF ~slaves[name].present
    THEN [result |-> "failure", slaves |-> slaves]
    ELSE LET applied == apply_updates(slaves[name], updates)
         IN  [result |-> IF applied.raised THEN "raised" ELSE "success",
              slaves |-> [slaves EXCEPT ![name] = updated_slave(slaves[name], updates)]]

\* the lot calculator alone, continued: calculate before and after an
\* update_slave request

\* an update_slave request that changes no sizing field, and the same
\* calculate call right after it: balances are the <<master_balance,
\* slave_balance>> of the rebuilt calculator
CalculateAfterUpdate ==
    /\ lot_call.made
    /\ ~lot_call.updated
    /\ LET sl == updated_slave(lot_call.cfg, <<<<"magic_number", 7>>>>)
       IN  lot_call' = [lot_call EXCEPT
                           !.updated = TRUE,
                           !.balances = <<sl.master_balance, sl.slave_balance>>,
                           !.after = calculate(sl, lot_call.master_lot,
                                               lot_call.symbol_info)]
    /\ UNCHANGED <<monitor_vars, engine_vars, retry_vars, lifecycle_vars, store_call,
                   detector_call, order_call, partial_call>>

LotNext ==
    \/ Calculate
    \/ CalculateAfterUpdate

SpecLot == LotInit /\ [][LotNext]_vars

----------------------------------------------------------------------------
(* Specification of the engine's life cycle: start, run, the heartbeat and  *)
(* stop on one event loop, with add_slave and update_slave requests, over   *)
(* a master account without positions.                                      *)

MaxLifecyclePolls == 2
MaxHeartbeats == 1
MaxStops == 2
MaxRequests == 1

\* the lot_mode strings a request carries
RequestLotModes == {"fixed", "bogus"}

\* the lot_value of a request, None when the field is left out
RequestLotValues == {<<>>, <<2000>>}

LifecycleInit ==
    /\ MasterIdle
    /\ SyncEngineInit
    /\ db_rows \in {{}, {StoredMapping}}
    /\ RetryIdle
    /\ LifecycleIdle
    /\ UnitIdle

\* SyncEngine.start called by CopyTraderService.start, or by any holder of
\* the engine (start does not look at the running flag)
LifecycleStart ==
    /\ starts < MaxStarts
    /\ stops = 0
    /\ starts' = starts + 1
    /\ \E connected \in BOOLEAN, outcome \in StartOutcomes :
          start(connected, "ok", outcome)
    /\ UNCHANGED <<master_positions, master_closed, handlers, ready, calls,
                   control_ops, db_rows, audit_log, retry_vars, heartbeats, loop_pc,
                   stop_pc, stops, api_response, unit_vars>>

\* SyncEngine.run, up to the loop: it calls start when the engine is not
\* running and returns when start fails
RunEnters ==
    /\ loop_pc = "idle"
    /\ stops = 0
    /\ IF running
       THEN /\ loop_pc' = "top"
            /\ UNCHANGED <<monitor_vars, running, starts, slaves, position_map,
                           heartbeat_task, orphan_heartbeats, start_call>>
       ELSE /\ starts < MaxStarts
            /\ starts' = starts + 1
            /\ \E connected \in BOOLEAN, outcome \in StartOutcomes :
                  start(connected, "ok", outcome)
            /\ loop_pc' = IF running' THEN "top" ELSE "exited"
            /\ UNCHANGED <<master_positions, master_closed>>
    /\ UNCHANGED <<handlers, ready, calls, control_ops, db_rows, audit_log,
                   retry_vars, heartbeats, stop_pc, stops, api_response, unit_vars>>

\* a loop that does not look at the flag
loop_forever == TRUE

\* the condition of the poll loop: while self._running
loop_continues == running

\* the top of the poll loop: the flag is checked, then detect_changes is
\* called in the same step (no await lies between them)
LoopTop ==
    /\ loop_pc = "top"
    /\ IF loop_continues
       THEN /\ polls < MaxLifecyclePolls
            /\ detect_changes(master_positions, "ok")
            /\ loop_pc' = "iteration"
            /\ UNCHANGED <<master_positions, master_closed, master_mt5,
                           master_initialized, startup_tickets>>
       ELSE /\ loop_pc' = "exited"
            /\ UNCHANGED monitor_vars
    /\ UNCHANGED <<engine_vars, retry_vars, heartbeat_task, orphan_heartbeats,
                   heartbeats, stop_pc, stops, start_call, api_response, unit_vars>>

\* the rest of the iteration: the ChangeSet is empty, the sleep ends
LoopSleeps ==
    /\ loop_pc = "iteration"
    /\ loop_pc' = "top"
    /\ UNCHANGED <<monitor_vars, engine_vars, retry_vars, heartbeat_task,
                   orphan_heartbeats, heartbeats, stop_pc, stops, start_call,
                   api_response, unit_vars>>

\* one iteration of a live _heartbeat_loop task that finds the flag set
Heartbeat ==
    /\ heartbeat_task = "alive" \/ orphan_heartbeats > 0
    /\ running
    /\ heartbeats < MaxHeartbeats
    /\ heartbeats' = heartbeats + 1
    /\ \E info \in {"ok", "none", "raise"} :
          /\ update_account_info(info)
          /\ slaves' = [n \in SlaveNames |-> slave_update_account_info(slaves[n], info)]
    /\ UNCHANGED <<master_positions, master_closed, master_mt5, master_initialized,
                   previous_snapshot, changes, fetch_result, polls, startup_tickets,
                   running, starts, position_map, handlers, ready, calls, control_ops,
                   db_rows, audit_log, retry_vars, heartbeat_task, orphan_heartbeats,
                   loop_pc, stop_pc, stops, start_call, api_response, unit_vars>>

\* a _heartbeat_loop task nobody cancelled finds the flag cleared and ends
HeartbeatExits ==
    /\ ~running
    /\ orphan_heartbeats > 0
    /\ orphan_heartbeats' = orphan_heartbeats - 1
    /\ UNCHANGED <<monitor_vars, engine_vars, retry_vars, heartbeat_task, heartbeats,
                   loop_pc, stop_pc, stops, start_call, api_response, unit_vars>>

\* SyncEngine.stop: the flag is cleared and the task _heartbeat_task names is
\* cancelled; awaiting a live task suspends stop, awaiting a finished one
\* does not and stop goes on to the shutdowns
Stop ==
    /\ stop_pc = "idle"
    /\ stops < MaxStops
    /\ stops' = stops + 1
    /\ running' = FALSE
    /\ IF heartbeat_task = "alive"
       THEN /\ heartbeat_task' = "done"
            /\ stop_pc' = "awaiting"
            /\ UNCHANGED <<master_initialized, master_state, slaves>>
       ELSE /\ shutdown_all
            /\ UNCHANGED <<heartbeat_task, stop_pc>>
    /\ UNCHANGED <<master_positions, master_closed, master_mt5, previous_snapshot,
                   changes, fetch_result, polls, startup_tickets, starts, position_map,
                   handlers, ready, calls, control_ops, db_rows, audit_log, retry_vars,
                   orphan_heartbeats, heartbeats, loop_pc, start_call, api_response,
                   unit_vars>>

\* stop resumes once the cancelled heartbeat task has ended
StopResumes ==
    /\ stop_pc = "awaiting"
    /\ stop_pc' = "idle"
    /\ shutdown_all
    /\ UNCHANGED <<master_positions, master_closed, master_mt5, previous_snapshot,
                   changes, fetch_result, polls, startup_tickets, running, starts,
                   position_map, handlers, ready, calls, control_ops, db_rows, audit_log,
                   retry_vars, heartbeat_task, orphan_heartbeats, heartbeats, loop_pc,
                   stops, start_call, api_response, unit_vars>>

\* POST /slaves: a lot_mode that is no LotMode is answered 400 before the
\* engine is called; a failure result is answered 400, a success 201
AddSlave ==
    /\ control_ops < MaxRequests
    /\ control_ops' = control_ops + 1
    /\ \E name \in SlaveNames, enabled \in BOOLEAN, lot_mode \in RequestLotModes,
          outcome \in InitializeOutcomes :
          LET res == add_slave(name, enabled, lot_mode, outcome)
              resp == [op |-> "add_slave", name |-> name, lot_mode |-> lot_mode,
                       outcome |-> IF enabled THEN outcome ELSE "", result |-> "",
                       status |-> 0]
          IN  IF lot_mode \notin LotModes
              THEN /\ api_response' = [resp EXCEPT !.status = 400]
                   /\ UNCHANGED slaves
              ELSE /\ slaves' = res.slaves
                   /\ api_response' =
                         [resp EXCEPT !.result = IF res.success THEN "success" ELSE "failure",
                                      !.status = IF res.success THEN 201 ELSE 400]
    /\ UNCHANGED <<monitor_vars, running, starts, position_map, handlers, ready, calls,
                   db_rows, audit_log, retry_vars, heartbeat_task, orphan_heartbeats,
                   heartbeats, loop_pc, stop_pc, stops, start_call, unit_vars>>

\* PUT /slaves/{name}: the updates dict holds the fields of the request in
\* the order lot_mode, lot_value; an empty one is answered 400; the engine's
\* failure result is answered 404; an exception leaving the route is
\* answered 500
UpdateSlave ==
    /\ control_ops < MaxRequests
    /\ control_ops' = control_ops + 1
    /\ \E name \in SlaveNames, lot_mode \in RequestLotModes \cup {""},
          lot_value \in RequestLotValues :
          LET updates == (IF lot_mode = "" THEN <<>> ELSE <<<<"lot_mode", lot_mode>>>>)
                         \o [i \in 1..Len(lot_value) |-> <<"lot_value", lot_value[i]>>]
              res == update_slave(name, updates)
              resp == [op |-> "update_slave", name |-> name, lot_mode |-> lot_mode,
                       outcome |-> "", result |-> "", status |-> 0]
          IN  IF updates = <<>>
              THEN /\ api_response' = [resp EXCEPT !.status = 400]
                   /\ UNCHANGED slaves
              ELSE /\ slaves' = res.slaves
                   /\ api_response' =
                         [resp EXCEPT !.result = res.result,
                                      !.status = IF res.result = "success" THEN 200
                                                 ELSE IF res.result = "failure" THEN 404
                                                 ELSE 500]
    /\ UNCHANGED <<monitor_vars, running, starts, position_map, handlers, ready, calls,
                   db_rows, audit_log, retry_vars, heartbeat_task, orphan_heartbeats,
                   heartbeats, loop_pc, stop_pc, stops, start_call, unit_vars>>

LifecycleNext ==
    \/ LifecycleStart
    \/ RunEnters
    \/ LoopTop
    \/ LoopSleeps
    \/ Heartbeat
    \/ HeartbeatExits
    \/ Stop
    \/ StopResumes
    \/ AddSlave
    \/ UpdateSlave

SpecLifecycle == LifecycleInit /\ [][LifecycleNext]_vars

\* the event loop runs every coroutine that is ready: the poll loop's sleep
\* ends and its next check of the flag is made, an awaited task ends
SpecLifecycleFair ==
    /\ SpecLifecycle
    /\ WF_vars(LoopTop)
    /\ WF_vars(LoopSleeps)
    /\ WF_vars(StopResumes)
    /\ WF_vars(HeartbeatExits)

----------------------------------------------------------------------------
(* Properties of the monitor and the detector *)

TicketsIn(seq) == {seq[i].ticket : i \in 1..Len(seq)}

\* C1: when the master's positions fetch fails (exception or null result),
\* detect_changes returns an empty ChangeSet and the detector's baseline is
\* left as it was.
C1_FailedFetchReportsNothing ==
    [][(polls' = polls + 1 /\ fetch_result' # "ok")
          => (is_empty(changes') /\ previous_snapshot' = previous_snapshot)]_vars

\* C3: in one compute_diff pass every ticket appears in at most one of
\* new_positions, closed_positions, partial_closes, modifications.
C3_TicketInAtMostOneSequence ==
    \A t \in Tickets :
        Cardinality({k \in 1..4 :
            t \in TicketsIn(<<changes.new_positions, changes.closed_positions,
                              changes.partial_closes, changes.modifications>>[k])}) <= 1

\* C20: a compute_diff whose argument equals the snapshot the detector held
\* (set by set_initial_snapshot or by the compute_diff before it) returns an
\* empty ChangeSet.
C20_DiffOfSameSnapshotIsEmpty ==
    (detector_call.op = "compute_diff" /\ detector_call.before = previous_snapshot)
       => /\ is_empty(changes)
          /\ changes = EmptyChangeSet

\* compute_diff(S) right after set_initial_snapshot(S), S holding two positions
C20_Witness ==
    /\ detector_call.op = "compute_diff"
    /\ detector_call.prior = "set_initial_snapshot"
    /\ detector_call.before = previous_snapshot
    /\ Keys(previous_snapshot) = Tickets
    /\ is_empty(changes)

\* compute_diff(C) right after a compute_diff(C) that reported changes
C20_WitnessRepeated ==
    /\ detector_call.op = "compute_diff"
    /\ detector_call.prior = "compute_diff"
    /\ detector_call.before = previous_snapshot
    /\ Keys(previous_snapshot) # {}

\* C21: compute_diff(S) right after set_initial_snapshot of the empty snapshot
\* returns one new position for each ticket of S, each the position S holds,
\* and no closed position, partial close or modification.
C21_DiffAgainstEmptyIsAllNew ==
    (/\ detector_call.op = "compute_diff"
     /\ detector_call.prior = "set_initial_snapshot"
     /\ detector_call.before = EmptySnapshot)
    => /\ Len(changes.new_positions) = Cardinality(Keys(previous_snapshot))
       /\ TicketsIn(changes.new_positions) = Keys(previous_snapshot)
       /\ \A i \in 1..Len(changes.new_positions) :
             changes.new_positions[i] =
                PositionSnapshot(changes.new_positions[i].ticket,
                                 previous_snapshot[changes.new_positions[i].ticket])
       /\ changes.closed_positions = <<>>
       /\ changes.partial_closes = <<>>
       /\ changes.modifications = <<>>

\* compute_diff of a snapshot of two positions after set_initial_snapshot({})
C21_Witness ==
    /\ detector_call.op = "compute_diff"
    /\ detector_call.prior = "set_initial_snapshot"
    /\ detector_call.before = EmptySnapshot
    /\ Keys(previous_snapshot) = Tickets
    /\ Len(changes.new_positions) = 2

\* C22: every PartialClose compute_diff emits has
\* 0 < closed_volume < original_volume.
C22_PartialCloseVolumes ==
    \A i \in 1..Len(changes.partial_closes) :
       /\ 0 < changes.partial_closes[i].closed_volume
       /\ changes.partial_closes[i].closed_volume
             < changes.partial_closes[i].original_volume

----------------------------------------------------------------------------
(* Properties of the engine *)

\* a handler has invoked op for master ticket t on slave name since the poll
Issued(op, t, name) ==
    \E c \in calls : c.by = "handler" /\ c.op = op /\ c.master_ticket = t /\ c.slave = name

\* the handler's gather is behind it, or an exception ended it
Finished(h) == handlers[h].pc \in {"db", "done", "raised"}

\* C2: positions already open on the master when the engine starts are never
\* copied: no slave receives an open_position call for a startup ticket, also
\* when the position fetch inside initialize failed or returned nothing.
C2_StartupPositionsNeverCopied ==
    \A c \in calls : c.op = "open" => c.master_ticket \notin startup_tickets

\* C4: while a slave is disabled (disable_slave returned, enable_slave not yet
\* called) the change handlers invoke no trade operation on it.
C4_DisabledSlaveSkipped ==
    [][\A c \in calls' \ calls :
          (c.by = "handler" /\ slaves[c.slave].present) => slaves[c.slave].enabled]_vars

\* C5: when the partial-close handler is through, a mapping whose
\* close_position did not return DONE has the slave_volume it had before the
\* handler, in memory and in the store.
C5_VolumeReducedOnlyOnDone ==
    \A t \in Tickets :
        LET h == handlers[<<"partial", t>>]
        IN  h.pc = "done" =>
              \A i \in 1..Len(h.tasks) :
                 h.results[i].retcode # DONE =>
                    /\ \A k \in 1..Len(position_map[t].list) :
                          position_map[t].list[k].slave_name = h.tasks[i].slave
                             => position_map[t].list[k].slave_volume = h.tasks[i].prior
                    /\ \A r \in db_rows :
                          (r.master_ticket = t /\ r.slave_name = h.tasks[i].slave)
                             => r.slave_volume = h.tasks[i].prior

\* C6: when the open handler is through, an open_position that ended with a
\* retryable non-DONE retcode before the last of retry_attempts attempts has
\* been followed by a further attempt on the same slave.
C6_RetryableOpenIsRetried ==
    \A t \in Tickets :
        handlers[<<"new", t>>].pc = "done" =>
           \A c \in calls :
              (/\ c.by = "handler" /\ c.op = "open" /\ c.master_ticket = t
               /\ c.retcode \notin {DONE, NoResult, Raised, NotSent}
               /\ is_retryable(c.retcode)
               /\ c.n < retry_attempts)
              => \E d \in calls : /\ d.by = "handler" /\ d.op = "open"
                                  /\ d.master_ticket = t /\ d.slave = c.slave
                                  /\ d.n = c.n + 1

\* C8: when the open handler is through, an open_position that ended with a
\* terminal retcode was the only attempt on that slave, left no open mapping
\* row, and has an audit-log entry for its (master_ticket, slave) pair.
C8_TerminalFailureAudited ==
    \A t \in Tickets :
        handlers[<<"new", t>>].pc = "done" =>
           \A c \in calls :
              (/\ c.by = "handler" /\ c.op = "open" /\ c.master_ticket = t
               /\ c.retcode \in NON_RETRYABLE_CODES)
              => /\ c.n = 1
                 /\ ~\E d \in calls : /\ d.by = "handler" /\ d.op = "open"
                                       /\ d.master_ticket = t /\ d.slave = c.slave
                                       /\ d.n > 1
                 /\ ~\E r \in db_rows : r.master_ticket = t /\ r.slave_name = c.slave
                                        /\ r.status = "open"
                 /\ \E i \in 1..Len(audit_log) :
                       /\ audit_log[i].master_ticket = t
                       /\ audit_log[i].slave_name = c.slave

\* C9: what the preparation or the operation of one slave raises does not
\* keep the action from the other slaves: once a handler is past its gather
\* or has ended, every coroutine it made has run, the open handler has
\* invoked open_position on every slave that copies the symbol, and the close
\* and partial-close handlers have invoked close_position on every mapping
\* whose slave exists, but for the slave whose own preparation raised.
C9_SiblingSlavesStillServed ==
    \A t \in Tickets :
        /\ \A kind \in HandlerKinds :
              Finished(<<kind, t>>) =>
                 Len(handlers[<<kind, t>>].results) = Len(handlers[<<kind, t>>].tasks)
        /\ Finished(<<"new", t>>) =>
              \A n \in SlaveNames :
                 (slaves[n].present
                  /\ should_copy_symbol(slaves[n],
                         ChangeFor(changes.new_positions, t).symbol))
                 => Issued("open", t, n)
        /\ \A kind \in {"close", "partial"} :
              Finished(<<kind, t>>) =>
                 \A i \in 1..Len(position_map[t].list) :
                    (/\ slaves[position_map[t].list[i].slave_name].present
                     /\ position_map[t].list[i].slave_name \notin handlers[<<kind, t>>].failed)
                    => Issued("close", t, position_map[t].list[i].slave_name)

\* C10: a remove_slave that runs while the close or the partial-close handler
\* waits at its gather does not make the handler raise when it resumes, and
\* once the close handler has ended the store rows of its master ticket are
\* 'closed'.
C10_RemoveSlaveDuringFanOut ==
    \A t \in Tickets :
        /\ handlers[<<"close", t>>].raised_at # "resume"
        /\ handlers[<<"partial", t>>].raised_at # "resume"
        /\ handlers[<<"close", t>>].pc \in {"done", "raised"} =>
              \A r \in db_rows : r.master_ticket = t => r.status = "closed"

\* C11: when remove_slave or disable_slave (close_positions = true) closes the
\* slave position of a mapping (close_position returns DONE), the row of that
\* mapping in the store is kept and has status 'closed' after the request.
C11_ForcedCloseMarksTheRow ==
    [][\A c \in calls' \ calls :
          (/\ c.by = "control" /\ c.op = "close" /\ c.retcode = DONE
           /\ \E r \in db_rows : r.master_ticket = c.master_ticket
                                 /\ r.slave_name = c.slave)
          => /\ \E r \in db_rows' : r.master_ticket = c.master_ticket
                                    /\ r.slave_name = c.slave
             /\ \A r \in db_rows' : (r.master_ticket = c.master_ticket
                                     /\ r.slave_name = c.slave)
                                    => r.status = "closed"]_vars

\* the engine restarted over the stored mapping of ticket 1 while the master
\* position 1 was open
RestartedOverStoredMapping ==
    /\ 1 \in startup_tickets
    /\ \E r \in db_rows : r.master_ticket = 1 /\ r.slave_ticket = StoredTicket

\* C12: restart recovery. When the store holds the open mapping (1, s1, 9001)
\* and master position 1 is open at the restart, a successful start puts the
\* mapping into the in-memory map, no open_position is issued for ticket 1
\* afterwards, and when ticket 1 has disappeared from the master snapshot and
\* the close handler has ended, close_position was called on s1 and the stored
\* mapping is 'closed'.
C12_RestartRecovery ==
    [][/\ (~running /\ running' /\ StoredMapping \in db_rows /\ master_positions[1] # NoPos)
          => /\ position_map'[1].present
             /\ \E i \in 1..Len(position_map'[1].list) :
                   position_map'[1].list[i] = StoredMapping
       /\ RestartedOverStoredMapping
          => \A c \in calls' \ calls : ~(c.op = "open" /\ c.master_ticket = 1)
       /\ (RestartedOverStoredMapping'
           /\ handlers'[<<"close", 1>>].pc \in {"skipped", "done", "raised"})
          => /\ Issued("close", 1, "s1")'
             /\ \A r \in db_rows' : r.master_ticket = 1 => r.status = "closed"]_vars

----------------------------------------------------------------------------
(* Properties of the retry manager *)

\* C7: once the executor has returned a non-retryable retcode it is not
\* invoked again, and when execute_with_retry ends the operation is FAILED.
C7_NonRetryableEndsTheOperation ==
    [][(\E i \in 1..Len(executed) : executed[i] \in NON_RETRYABLE_CODES)
          => /\ executed' = executed
             /\ retry_pc' \in {"returned", "raised"} => operation'.status = "failed"]_vars

\* C15: for one call of execute_with_retry with both callbacks passed, at
\* most one callback is ever invoked, it is invoked while the operation is in
\* its terminal status (on_success with COMPLETED, on_failure with FAILED),
\* and when the call has ended exactly one callback has been invoked.
C15_OneCallbackAtTheEnd ==
    (on_success /\ on_failure) =>
       /\ Len(callbacks) <= 1
       /\ retry_pc \in {"on_success", "on_failure", "last_on_failure"} =>
             operation.status =
                (IF callbacks[Len(callbacks)] = "on_success" THEN "completed" ELSE "failed")
       /\ retry_pc \in {"returned", "raised"} =>
             /\ Len(callbacks) = 1
             /\ operation.status \in {"completed", "failed"}

\* the edges of the operation's state machine
StatusEdges ==
    {<<"pending", "processing">>, <<"processing", "completed">>,
     <<"processing", "failed">>, <<"processing", "pending">>}

\* C16: the operation's status only moves along PENDING->PROCESSING,
\* PROCESSING->COMPLETED, PROCESSING->FAILED and PROCESSING->PENDING; PENDING
\* is re-entered only while attempts < max_attempts; the executor is invoked
\* at most max_attempts times.
C16_StatusFollowsTheEdges ==
    [][/\ operation'.status # operation.status =>
             /\ <<operation.status, operation'.status>> \in StatusEdges
             /\ operation'.status = "pending" =>
                   operation'.attempts < operation'.max_attempts
       /\ Len(executed') <= operation'.max_attempts]_vars

\* C19: the delay slept after attempt k, when a retry is scheduled, is
\* min(base_delay * 2^(k-1), max_delay).
C19_BackoffDelay ==
    \A k \in 1..Len(slept) :
       slept[k] = (IF base_delay * 2^(k - 1) < max_delay
                   THEN base_delay * 2^(k - 1) ELSE max_delay)

\* three retries were scheduled with base_delay 10: the delays 10 and 20, and
\* the third capped at max_delay
C19_Witness ==
    /\ base_delay = 10
    /\ Len(slept) = 3
    /\ slept[2] = 20
    /\ slept[3] = max_delay
    /\ operation.attempts = 3

----------------------------------------------------------------------------
(* Properties of the mapping store *)

\* the rows of the key of mapping m
RowsOf(m) == {r \in db_rows : SameKey(m, r)}

\* C13: the store holds at most one row for each (master_ticket, slave_name)
\* pair, and after a save every saved pair has exactly one row, the one
\* saved last, whether or not the pair had a row before.
C13_OneRowPerPair ==
    /\ \A r1 \in db_rows : \A r2 \in db_rows : SameKey(r1, r2) => r1 = r2
    /\ store_call.op = "save" =>
          \A i \in 1..Len(store_call.mappings) :
             /\ Cardinality(RowsOf(store_call.mappings[i])) = 1
             /\ (~\E j \in (i + 1)..Len(store_call.mappings) :
                    SameKey(store_call.mappings[i], store_call.mappings[j]))
                => RowsOf(store_call.mappings[i]) = {store_call.mappings[i]}

\* a save that found a row of a saved pair, next to the rows of other pairs
C13_Witness ==
    /\ store_call.op = "save"
    /\ store_call.existing # {}
    /\ Cardinality(db_rows) > Len(store_call.mappings)

\* C14: no row of the store has status 'open' together with a closed_at, also
\* after a closed row was set back to 'open' by update_mappings_status or a
\* mapping was saved again for a closed pair.
C14_OpenRowHasNoClosedAt ==
    \A r \in db_rows : r.status = "open" => ~r.closed_at

\* a closed row was just made 'open' again by re-saving its pair, while a row
\* of the other master ticket is closed
C14_Witness ==
    /\ store_call.op = "save"
    /\ store_call.reopened
    /\ \E r \in db_rows : r.status = "closed" /\ r.closed_at

\* a closed row was just set back to 'open' by update_mappings_status
C14_WitnessStatus ==
    /\ store_call.op = "status"
    /\ store_call.reopened

----------------------------------------------------------------------------
(* Properties of the lot calculator *)

\* the call had a symbol_info
WithSymbolInfo == lot_call.made /\ lot_call.symbol_info # NoSymbolInfo

\* [min_lot, max_lot] and [volume_min, volume_max] have a volume in common
LimitsOverlap ==
    Max(lot_call.cfg.min_lot, lot_call.symbol_info.volume_min)
       <= Min(lot_call.cfg.max_lot, lot_call.symbol_info.volume_max)

\* C17: with a symbol_info the result of calculate lies in [min_lot, max_lot]
\* and in [volume_min, volume_max] (stated for the configurations whose two
\* intervals overlap, the only ones where a result can lie in both).
C17_ResultWithinLimits ==
    (WithSymbolInfo /\ LimitsOverlap) =>
       /\ lot_call.cfg.min_lot <= lot_call.result
       /\ lot_call.result <= lot_call.cfg.max_lot
       /\ lot_call.symbol_info.volume_min <= lot_call.result
       /\ lot_call.result <= lot_call.symbol_info.volume_max

\* C18: with a symbol_info whose volume_step is positive the result of
\* calculate is an integer multiple of volume_step.
C18_ResultMultipleOfStep ==
    (WithSymbolInfo /\ lot_call.symbol_info.volume_step > 0) =>
       lot_call.result % lot_call.symbol_info.volume_step = 0

----------------------------------------------------------------------------
(* Properties of the SL/TP arithmetic *)

\* the level at distance |price_open - level| from price, below it when
\* below is TRUE and above it otherwise; 0 when the master's level is not set
KeepDistance(price_open, level, price, below) ==
    IF level = 0 THEN 0
    ELSE IF below THEN price - Abs(price_open - level)
    ELSE price + Abs(price_open - level)

\* C23: the SL and TP sent to a slave for a master modification keep the
\* master's distances from the slave position's own entry price (SL below the
\* entry for a BUY and above it for a SELL, TP on the other side).
C23_ModifyKeepsDistance ==
    order_call.op = "modify" =>
       /\ order_call.request.sl =
             KeepDistance(order_call.master.price_open, order_call.master.sl,
                          order_call.entry, order_call.direction = BUY)
       /\ order_call.request.tp =
             KeepDistance(order_call.master.price_open, order_call.master.tp,
                          order_call.entry, order_call.direction = SELL)

\* the side of the order: the master's, inverted iff invert_trades
OrderSide ==
    IF order_call.invert_trades
    THEN (IF order_call.master.type = BUY THEN SELL ELSE BUY)
    ELSE order_call.master.type

\* C24: the open order has the master's side, inverted iff invert_trades;
\* price = ask for a BUY and bid for a SELL; sl at the master's SL distance
\* below the price for a BUY and above it for a SELL; tp at the TP distance on
\* the other side; sl (tp) = 0 when the master's sl (tp) is 0.
C24_OpenOrderKeepsDistance ==
    order_call.op = "open" =>
       /\ order_call.request.type = OrderSide
       /\ order_call.request.price =
             (IF OrderSide = BUY THEN order_call.tick.ask ELSE order_call.tick.bid)
       /\ order_call.request.sl =
             KeepDistance(order_call.master.price_open, order_call.master.sl,
                          order_call.request.price, OrderSide = BUY)
       /\ order_call.request.tp =
             KeepDistance(order_call.master.price_open, order_call.master.tp,
                          order_call.request.price, OrderSide = SELL)

\* an inverted copy of a master BUY with both stops set: a SELL at the bid
\* with the SL above and the TP below the price
C24_Witness ==
    /\ order_call.op = "open"
    /\ order_call.invert_trades
    /\ order_call.master.type = BUY
    /\ order_call.master.sl > 0
    /\ order_call.master.tp > 0
    /\ order_call.request.type = SELL
    /\ order_call.request.price = order_call.tick.bid
    /\ order_call.request.sl > order_call.request.price
    /\ order_call.request.tp < order_call.request.price

----------------------------------------------------------------------------
(* Properties of the poll loop *)

\* the handler has settled: it returned or ended by an exception
Settled(h) == handlers[h].pc \in {"idle", "skipped", "done", "raised"}

\* C28: when detect_changes is called for the next iteration every handler
\* of the previous one has settled and position_map holds its results: the
\* mappings a new-position handler collected (as far as no control request
\* took them out since), and no entry for a ticket whose close handler
\* completed
C28_IterationsSerialized ==
    [][polls' = polls + 1 =>
        /\ ready = <<>>
        /\ \A h \in HandlerIds : Settled(h)
        /\ \A t \in Tickets :
              /\ handlers[<<"new", t>>].pc = "done"
                 /\ Mappings(handlers[<<"new", t>>].results) # <<>>
                 /\ control_ops = 0
                 => position_map[t] = Entry(Mappings(handlers[<<"new", t>>].results))
              /\ handlers[<<"close", t>>].pc = "done" => ~position_map[t].present]_vars

\* the second iteration starts a close handler for the ticket whose copies
\* the first iteration opened and mapped
C28_Witness ==
    /\ polls = 2
    /\ starts = 1
    /\ handlers[<<"close", 1>>].pc = "ready"
    /\ position_map[1].present
    /\ \A i \in 1..Len(position_map[1].list) :
          position_map[1].list[i].slave_ticket # StoredTicket

----------------------------------------------------------------------------
(* Properties of the engine's life cycle *)

\* C25: a start call deletes every executor whose initialize failed; when no
\* executor is left it returns false and leaves the running flag, the
\* position map and the heartbeat task as they were; when it returns true
\* every executor left has been initialized by this call
C25_StartDropsFailedSlaves ==
    [][starts' = starts + 1 =>
        /\ start_call'.connected =>
              \A n \in SlaveNames :
                 slaves[n].present /\ ~initialize_ok(start_call'.outcome[n])
                    => ~slaves'[n].present
        /\ (\A n \in SlaveNames : ~slaves'[n].present) =>
              /\ ~start_call'.returned
              /\ UNCHANGED <<running, position_map, heartbeat_task, orphan_heartbeats>>
        /\ start_call'.returned =>
              \A n \in SlaveNames :
                 slaves'[n].present =>
                    slaves'[n].initialized /\ initialize_ok(start_call'.outcome[n])]_vars

\* start returned true after deleting s2, whose initialize failed
C25_Witness ==
    /\ start_call.made
    /\ start_call.returned
    /\ ~initialize_ok(start_call.outcome["s2"])
    /\ slaves["s1"].present /\ slaves["s1"].initialized
    /\ ~slaves["s2"].present
    /\ starts = 1

\* the heartbeat tasks alive
LiveHeartbeats == (IF heartbeat_task = "alive" THEN 1 ELSE 0) + orphan_heartbeats

\* the engine is stopped: the flag is cleared and nothing is connected
Stopped ==
    /\ ~running
    /\ stop_pc = "idle"
    /\ ~master_initialized
    /\ ~master_state.connected
    /\ \A n \in SlaveNames : slaves[n].present => ~slaves[n].initialized /\ ~slaves[n].connected

\* C26: start on a running engine and stop on a stopped engine change
\* nothing: the slave set, the position map, the connections and the
\* heartbeat task stay as the first call left them, and at most one
\* heartbeat task is alive at any time
C26_StartAndStopIdempotent ==
    [][/\ starts' = starts + 1 /\ running =>
             UNCHANGED <<running, slaves, position_map, master_initialized,
                         heartbeat_task, orphan_heartbeats>>
       /\ stops' = stops + 1 /\ stops > 0 /\ Stopped =>
             UNCHANGED <<running, slaves, position_map, master_initialized,
                         master_state, heartbeat_task, orphan_heartbeats>>
       /\ LiveHeartbeats' <= 1]_vars

\* C27: once stop has been called the heartbeat task it names is not alive,
\* the poll loop makes no further detect_changes call, and the loop, after
\* finishing the iteration under way, exits for good
C27_StopEndsTheLoop ==
    /\ [][stops > 0 => polls' = polls /\ heartbeat_task' # "alive"]_vars
    /\ [][stops' > stops => ~running' /\ heartbeat_task' # "alive"]_vars
    /\ (stops > 0) ~> [](loop_pc \in {"idle", "exited"})

\* stop came during an iteration of the loop, and the loop has exited
C27_Witness ==
    /\ stops > 0
    /\ polls > 0
    /\ heartbeat_task = "done"
    /\ loop_pc = "exited"

\* C29: an update_slave request whose lot_mode is no lot mode is answered
\* with a 4xx status and leaves every executor's configuration as it was
C29_InvalidLotModeIsClientError ==
    [][/\ control_ops' = control_ops + 1
       /\ api_response'.op = "update_slave"
       /\ api_response'.lot_mode \notin LotModes \cup {""}
       => /\ api_response'.status \in 400..499
          /\ slaves' = slaves]_vars

\* C30: add_slave under a name already in the slave set, or of an enabled
\* slave whose initialize fails, returns a failure and leaves the slave set
\* with its executors as it was
C30_FailedAddSlaveChangesNothing ==
    [][/\ control_ops' = control_ops + 1
       /\ api_response'.op = "add_slave"
       /\ api_response'.lot_mode \in LotModes
       /\ \/ slaves[api_response'.name].present
          \/ api_response'.outcome \in InitializeOutcomes \ {"ok", "ok_noinfo"}
       => /\ api_response'.result = "failure"
          /\ slaves' = slaves]_vars

\* add_slave failed on a name already taken by a connected executor
C30_Witness ==
    /\ api_response.op = "add_slave"
    /\ api_response.result = "failure"
    /\ api_response.outcome \in {"", "ok"}
    /\ slaves[api_response.name].present
    /\ slaves[api_response.name].connected

----------------------------------------------------------------------------
(* Properties of the control plane and of the mappings *)

\* the mappings of list that belong to another slave than name
OthersOf(list, name) == SelectSeq(list, LAMBDA m : m.slave_name # name)

\* C31: a remove_slave that succeeds leaves name out of the slave set, no
\* mapping of name and no empty list in position_map, and the mappings of
\* every other slave as they were
C31_RemoveSlaveFrame ==
    [][\A name \in SlaveNames :
          (control_ops' = control_ops + 1 /\ slaves[name].present /\ ~slaves'[name].present)
          => /\ \A n \in SlaveNames \ {name} : slaves'[n] = slaves[n]
             /\ \A t \in Tickets :
                   /\ position_map'[t].present => position_map'[t].list # <<>>
                   /\ \A i \in 1..Len(position_map'[t].list) :
                         position_map'[t].list[i].slave_name # name
                   /\ position_map'[t].list = OthersOf(position_map[t].list, name)]_vars

\* s1, which held a mapping of ticket 1 made in this run, has been removed
\* and the mapping of s2 is still in the map
C31_Witness ==
    /\ control_ops = 1
    /\ ~slaves["s1"].present
    /\ \E r \in db_rows : r.master_ticket = 1 /\ r.slave_name = "s1"
                          /\ r.slave_ticket = SlaveTicket(1, "s1")
    /\ position_map[1].present
    /\ Len(position_map[1].list) = 1
    /\ position_map[1].list[1].slave_name = "s2"

\* slave name's open_position for the new position t returned DONE
OpenedOn(h, name) ==
    \E i \in 1..Len(h.tasks) :
       /\ i <= Len(h.results)
       /\ h.tasks[i].slave = name
       /\ h.results[i].retcode = DONE

\* position_map holds a mapping of master ticket t for slave name
MappedInMemory(map, t, name) ==
    \E i \in 1..Len(map[t].list) : map[t].list[i].slave_name = name

\* the store holds an open row of master ticket t for slave name
MappedInStore(rows, t, name) ==
    \E r \in rows : r.master_ticket = t /\ r.slave_name = name /\ r.status = "open"

\* C32: when the open handler of a new master position returns, position_map
\* and the store hold a mapping of (master ticket, slave) exactly for the
\* slaves that passed the symbol filter and whose open_position returned DONE
C32_MappingIffOpened ==
    [][\A t \in Tickets :
          LET h == handlers'[<<"new", t>>]
          IN  (handlers[<<"new", t>>].pc # "done" /\ h.pc = "done")
              => \A name \in SlaveNames :
                    /\ MappedInMemory(position_map', t, name) <=> OpenedOn(h, name)
                    /\ MappedInStore(db_rows', t, name) <=> OpenedOn(h, name)]_vars

\* the open handler returned after s1's open succeeded and s2's failed
C32_Witness ==
    LET h == handlers[<<"new", 1>>]
    IN  /\ h.pc = "done"
        /\ OpenedOn(h, "s1")
        /\ ~OpenedOn(h, "s2")
        /\ Len(h.tasks) = 2
        /\ MappedInMemory(position_map, 1, "s1")
        /\ ~MappedInMemory(position_map, 1, "s2")

\* C33: over a run of the poll loop, failed master fetches included, a
\* handler issues open_position for a (master ticket, slave) pair once only
\* (not twice in an iteration, and not for a pair that an earlier open left
\* a mapping row for), and the close handler issues close_position only for
\* a master ticket that is gone from the broker
C33_OpenOnceCloseWhenGone ==
    [][\A c \in calls' \ calls :
          /\ (c.by = "handler" /\ c.op = "open")
             => /\ c.n = 1
                /\ ~\E r \in db_rows : r.master_ticket = c.master_ticket
                                       /\ r.slave_name = c.slave
          /\ (c.by = "handler" /\ c.op = "close" /\ c.volume = 0)
             => master_positions[c.master_ticket] = NoPos]_vars

\* C34: after any sequence of partial closes a mapping's slave_volume is never
\* negative, and no close order is asked for more than the mapping's volume
\* before the event
C34_SlaveVolumeNeverNegative ==
    partial_call.mapped =>
       /\ partial_call.slave_volume >= 0
       /\ partial_call.requested <= partial_call.before

\* C36: a close order carries exactly the volume close_position was called
\* with, so a computed volume of 0 never becomes an order for the whole
\* position
C36_CloseOrderForExactlyTheVolume ==
    (partial_call.mapped /\ partial_call.ordered) =>
       partial_call.sent = partial_call.requested

\* C35: the slave_volume a new mapping records (calculate without symbol
\* info, as _copy_to_slave calls it) equals the lot of the order open_position
\* sent (calculate with the symbol's volume_min, volume_max and volume_step)
C35_MappingRecordsTheOrderLot ==
    (lot_call.made /\ lot_call.symbol_info # NoSymbolInfo) =>
       calculate(lot_call.cfg, lot_call.master_lot, NoSymbolInfo) = lot_call.result

\* no handler is suspended at a gather or at a store call
NoHandlerSuspended == \A h \in HandlerIds : Settled(h)

\* C37: whenever no handler is suspended every mapping of position_map names a
\* slave of the slave set, and no row is added to the store for a slave that
\* was removed (a remove_slave during the open handler's gather included)
C37_MappingsNameLiveSlaves ==
    [][/\ NoHandlerSuspended' =>
             \A t \in Tickets : position_map'[t].present =>
                \A i \in 1..Len(position_map'[t].list) :
                   slaves'[position_map'[t].list[i].slave_name].present
       /\ \A r \in db_rows' :
             (~\E x \in db_rows : x.master_ticket = r.master_ticket
                                  /\ x.slave_name = r.slave_name)
             => slaves'[r.slave_name].present]_vars

\* the (master ticket, slave) pairs of the mappings in position_map
MapPairs ==
    {p \in Tickets \X SlaveNames :
        position_map[p[1]].present /\ MappedInMemory(position_map, p[1], p[2])}

\* the (master ticket, slave) pairs of the 'open' rows of the store
OpenRowPairs ==
    {<<r.master_ticket, r.slave_name>> : r \in {x \in db_rows : x.status = "open"}}

\* C38: whenever the engine runs and no handler is suspended, the 'open' rows
\* of the store are the mappings of position_map, also after remove_slave and
\* disable_slave
C38_StoreMatchesMapWhenQuiescent ==
    (running /\ NoHandlerSuspended) => OpenRowPairs = MapPairs

\* C39: update_slave leaves the balances of the slave's LotCalculator as they
\* were, so a PROPORTIONAL lot computed right after an update that changed no
\* sizing field equals the lot computed right before it
C39_UpdateSlaveKeepsBalances ==
    lot_call.updated =>
       /\ lot_call.balances = <<lot_call.cfg.master_balance, lot_call.cfg.slave_balance>>
       /\ lot_call.cfg.lot_mode = "proportional" => lot_call.after = lot_call.result

\* C40: once the executor has returned DONE it is never invoked again and the
\* operation stays COMPLETED, also when on_success raises
C40_DoneEndsTheOperation ==
    [][(\E i \in 1..Len(executed) : executed[i] = DONE)
          => /\ executed' = executed
             /\ operation'.status = "completed"]_vars

====
